---------------------------- MODULE Spec2Model ----------------------------
(***************************************************************************)
(* A model of the Telegram expense tracker: the command parser             *)
(* (parser.ts), the spreadsheet service (sheets.ts) against a model of the *)
(* Sheets backend, and the bot's handlers (bot.ts).                        *)
(*                                                                         *)
(* Text is modelled as a sequence of one-character strings, so that        *)
(* trimming, splitting, prefix tests and parseFloat are computed the way   *)
(* the JavaScript runtime computes them.                                   *)
(***************************************************************************)
EXTENDS Integers, Sequences, FiniteSets, TLC

(***************************************************************************)
(* Bounds of the model.                                                    *)
(***************************************************************************)
\* longest amount token drawn from TokChars
MaxTok == 3

(***************************************************************************)
(* JavaScript values.                                                      *)
(***************************************************************************)
\* the value undefined, kept apart from every text (a text holds one-character strings)
Undefined == <<"undefined">>

\* a number: NaN, +/-Infinity, or the finite decimal m * 10^(-e)
NaN == [k |-> "nan", m |-> 0, e |-> 0]
Infinity == [k |-> "inf", m |-> 1, e |-> 0]
NegInfinity == [k |-> "inf", m |-> -1, e |-> 0]

RECURSIVE Pow10(_)
Pow10(n) == IF n <= 0 THEN 1 ELSE 10 * Pow10(n - 1)

RECURSIVE Normalise(_, _)
Normalise(m, e) ==
  IF m = 0 THEN [k |-> "fin", m |-> 0, e |-> 0]
  ELSE IF e < 0 THEN [k |-> "fin", m |-> m * Pow10(-e), e |-> 0]
  ELSE IF e > 0 /\ m % 10 = 0 THEN Normalise(m \div 10, e - 1)
  ELSE [k |-> "fin", m |-> m, e |-> e]

Num(n) == Normalise(n, 0)

isNaN(x) == x.k = "nan"

\* x <= 0 as JavaScript evaluates it (false for NaN)
LeqZero(x) == x.k # "nan" /\ x.m <= 0

\* x + y in exact decimal arithmetic (finite operands)
Add(x, y) ==
  IF x.k = "nan" \/ y.k = "nan" THEN NaN
  ELSE IF x.k = "inf" THEN (IF y.k = "inf" /\ y.m # x.m THEN NaN ELSE x)
  ELSE IF y.k = "inf" THEN y
  ELSE LET e == IF x.e > y.e THEN x.e ELSE y.e
       IN  Normalise(x.m * Pow10(e - x.e) + y.m * Pow10(e - y.e), e)

\* a value is falsy in `v || d` when it is undefined, the empty string, 0 or NaN
FalsyText(s) == s = Undefined \/ s = <<>>
FalsyNum(x) == x.k = "nan" \/ (x.k = "fin" /\ x.m = 0)

(***************************************************************************)
(* String primitives of the runtime.                                       *)
(***************************************************************************)
WhiteSpace == {" ", "\t", "\n"}
Digits == {"0", "1", "2", "3", "4", "5", "6", "7", "8", "9"}
Letters == {"a", "b", "c", "d", "e", "f", "g", "h", "i", "j", "k", "l", "m",
            "n", "o", "p", "q", "r", "s", "t", "u", "v", "w", "x", "y", "z",
            "A", "B", "C", "D", "E", "F", "G", "H", "I", "J", "K", "L", "M",
            "N", "O", "P", "Q", "R", "S", "T", "U", "V", "W", "X", "Y", "Z"}
\* the regular-expression class \w
WordChars == Letters \cup Digits \cup {"_"}

DigitVal(c) ==
  CASE c = "0" -> 0 [] c = "1" -> 1 [] c = "2" -> 2 [] c = "3" -> 3
    [] c = "4" -> 4 [] c = "5" -> 5 [] c = "6" -> 6 [] c = "7" -> 7
    [] c = "8" -> 8 [] c = "9" -> 9

\* s.slice(n): the text from 0-based index n on
Slice(s, n) == IF n >= Len(s) THEN <<>> ELSE SubSeq(s, n + 1, Len(s))

startsWith(s, p) == Len(s) >= Len(p) /\ SubSeq(s, 1, Len(p)) = p

RECURSIVE TrimStart(_)
TrimStart(s) ==
  IF s # <<>> /\ Head(s) \in WhiteSpace THEN TrimStart(Tail(s)) ELSE s

RECURSIVE TrimEnd(_)
TrimEnd(s) ==
  IF s # <<>> /\ s[Len(s)] \in WhiteSpace
  THEN TrimEnd(SubSeq(s, 1, Len(s) - 1)) ELSE s

trim(s) == TrimEnd(TrimStart(s))

\* the length of the longest prefix of s made of characters of set
RECURSIVE Run(_, _)
Run(s, set) ==
  IF s # <<>> /\ Head(s) \in set THEN 1 + Run(Tail(s), set) ELSE 0

\* the length of the longest prefix of s made of characters outside set
RECURSIVE RunNot(_, _)
RunNot(s, set) ==
  IF s # <<>> /\ Head(s) \notin set THEN 1 + RunNot(Tail(s), set) ELSE 0

\* s.split(/\s+/): the pieces between maximal runs of white space
RECURSIVE SplitWs(_)
SplitWs(s) ==
  LET n == RunNot(s, WhiteSpace)
      rest == Slice(s, n)
  IN  IF rest = <<>> THEN <<s>>
      ELSE <<SubSeq(s, 1, n)>> \o SplitWs(Slice(rest, Run(rest, WhiteSpace)))

\* a join that puts nothing between the parts
RECURSIVE JoinTight(_)
JoinTight(parts) == IF parts = <<>> THEN <<>> ELSE Head(parts) \o JoinTight(Tail(parts))

\* parts.join(' ')
RECURSIVE Join(_)
Join(parts) ==
  IF parts = <<>> THEN <<>>
  ELSE IF Len(parts) = 1 THEN parts[1]
  ELSE parts[1] \o <<" ">> \o Join(Tail(parts))

RECURSIVE DigitsValue(_)
DigitsValue(ds) ==
  IF ds = <<>> THEN 0 ELSE 10 * DigitsValue(SubSeq(ds, 1, Len(ds) - 1)) + DigitVal(ds[Len(ds)])

sInfinity == <<"I", "n", "f", "i", "n", "i", "t", "y">>

\* the digits s starts with
LeadingDigits(s) == SubSeq(s, 1, Run(s, Digits))

\* the value of the exponent part s starts with, 0 when it has none
Exponent(s) ==
  IF s = <<>> \/ Head(s) \notin {"e", "E"} THEN 0
  ELSE IF Len(s) >= 2 /\ s[2] \in {"+", "-"}
       THEN (IF s[2] = "-" THEN -1 ELSE 1) * DigitsValue(LeadingDigits(Slice(s, 2)))
       ELSE DigitsValue(LeadingDigits(Tail(s)))

\* the number of the literal with integer digits int and fraction digits
\* frac, followed by rest
Literal(sgn, int, frac, rest) ==
  IF int \o frac = <<>> THEN NaN
  ELSE Normalise(sgn * DigitsValue(int \o frac), Len(frac) - Exponent(rest))

\* the literal of integer digits int, where afterInt follows them
Fraction(sgn, int, afterInt) ==
  IF afterInt # <<>> /\ Head(afterInt) = "."
  THEN Literal(sgn, int, LeadingDigits(Tail(afterInt)),
               Slice(afterInt, 1 + Run(Tail(afterInt), Digits)))
  ELSE Literal(sgn, int, <<>>, afterInt)

\* the literal after its sign
Unsigned(sgn, u) ==
  IF startsWith(u, sInfinity) THEN (IF sgn = 1 THEN Infinity ELSE NegInfinity)
  ELSE Fraction(sgn, LeadingDigits(u), Slice(u, Run(u, Digits)))

\* the literal at the head of t, a sign first
Signed(t) ==
  IF t # <<>> /\ Head(t) \in {"+", "-"}
  THEN Unsigned(IF Head(t) = "-" THEN -1 ELSE 1, Tail(t))
  ELSE Unsigned(1, t)

\* parseFloat(s): the longest prefix of the trimmed text that is a decimal
\* literal (sign, digits, fraction, exponent) or a signed Infinity; NaN if none
parseFloat(s) == Signed(TrimStart(s))

(***************************************************************************)
(* The clock.  now counts milliseconds from the instant the model starts,  *)
(* MsToMonthEnd milliseconds before the end of 31 January 2026.            *)
(***************************************************************************)
\* milliseconds between the start of the model and the end of January 2026
MsToMonthEnd == 1

s20260131 == <<"2", "0", "2", "6", "-", "0", "1", "-", "3", "1">>
s20260201 == <<"2", "0", "2", "6", "-", "0", "2", "-", "0", "1">>

\* new Date().toISOString().split('T')[0]
toISODate(now) == IF now < MsToMonthEnd THEN s20260131 ELSE s20260201

(***************************************************************************)
(* parser.ts                                                               *)
(***************************************************************************)
sExpense == <<"/", "e", "x", "p", "e", "n", "s", "e">>
sExSpace == <<"/", "e", "x", " ">>
sExAt == <<"/", "e", "x", "@">>

ErrPrefix == "Message must start with /expense or /ex"
ErrFormat == "Invalid format. Use: /expense <amount> [description]"
ErrAmount == "Invalid amount. Must be a positive number."

\* trimmed.match(/^\/ex@\w+\s/): the length of the match, 0 when there is none
MatchExAt(trimmed) ==
  LET n == Run(Slice(trimmed, 4), WordChars)
      after == Slice(trimmed, 4 + n)
  IN  IF startsWith(trimmed, sExAt) /\ n >= 1 /\ after # <<>> /\ Head(after) \in WhiteSpace
      THEN 4 + n + 1 ELSE 0

\* the length of the command word, or -1 when the text starts with none
commandLength(trimmed) ==
  IF startsWith(trimmed, sExpense) THEN 8
  ELSE IF startsWith(trimmed, sExSpace) THEN 3
  ELSE IF startsWith(trimmed, sExAt)
       THEN (IF MatchExAt(trimmed) > 0 THEN MatchExAt(trimmed) ELSE -1)
  ELSE -1

\* isNaN(amount) || amount <= 0
InvalidAmount(amount) == isNaN(amount) \/ LeqZero(amount)

\* the earlier parser, src/src/parser.ts: /expense only, a description is
\* required, and when three or more tokens follow the command word the second
\* is the type
parseExpenseMessageEarlier(text, username, now) ==
  LET trimmed == trim(text)
      parts == SplitWs(trim(Slice(trimmed, 8)))
      typed == Len(parts) >= 3
      description == IF typed THEN Join(SubSeq(parts, 3, Len(parts))) ELSE Join(Tail(parts))
  IN  IF ~startsWith(trimmed, sExpense)
      THEN [success |-> FALSE, error |-> "Message must start with /expense"]
      ELSE IF Len(parts) < 2
           THEN [success |-> FALSE, error |-> "Invalid format. Use: /expense <amount> [<type>] <description>"]
      ELSE IF InvalidAmount(parseFloat(parts[1])) THEN [success |-> FALSE, error |-> ErrAmount]
      ELSE IF trim(description) = <<>>
           THEN [success |-> FALSE, error |-> "Description cannot be empty."]
      ELSE [success |-> TRUE,
            expense |-> [date |-> toISODate(now),
                         type |-> IF typed /\ trim(parts[2]) # <<>> THEN trim(parts[2]) ELSE Undefined,
                         amount |-> parseFloat(parts[1]),
                         description |-> trim(description),
                         username |-> username]]

parseExpenseMessage(text, username, now) ==
  LET trimmed == trim(text)
      cl == commandLength(trimmed)
      parts == SplitWs(trim(Slice(trimmed, cl)))
      amount == parseFloat(parts[1])
      description == IF Len(parts) >= 2 THEN trim(Join(Tail(parts))) ELSE <<>>
  IN  IF cl < 0 THEN [success |-> FALSE, error |-> ErrPrefix]
      ELSE IF Len(parts) < 1 \/ Len(trim(parts[1])) = 0
           THEN [success |-> FALSE, error |-> ErrFormat]
      ELSE IF InvalidAmount(amount) THEN [success |-> FALSE, error |-> ErrAmount]
      ELSE [success |-> TRUE,
            expense |-> [date |-> toISODate(now),
                         type |-> Undefined,
                         amount |-> amount,
                         description |-> IF FalsyText(description) THEN <<>> ELSE description,
                         username |-> username]]

(***************************************************************************)
(* State.                                                                  *)
(***************************************************************************)
VARIABLES
  now,            \* the clock, in milliseconds from the start of the model
  msg,            \* parser run: the message text, as command word, gap, amount token, rest
  parsed,         \* parser run: the ParseResult, or NotParsed before the call
  adminUserId,    \* config.adminUserId; 0 when ADMIN_USER_ID is not set
  approvedUsers,  \* the Set approvedUsers, in insertion order
  savedUsers,     \* approved_users.json: whether it exists, and the list it holds
  event,          \* the inbound event handled last
  reply,          \* the text the bot sent last
  pendingExpenses,\* the Map pendingExpenses: callback id -> expense data
  keyboards,      \* the callback data of the buttons sent to the chat
  tabs,           \* the spreadsheet document: its tabs in listing order
  targetExpense,  \* SheetsService.targetExpense
  tasks,          \* the service calls and handlers started so far, each with its position
  faults,         \* how many more backend calls may fail for an outside reason
  appended        \* history: per tab created or reset in this run, the expenses appended since

vars == <<now, msg, parsed, adminUserId, approvedUsers, savedUsers, event, reply,
          pendingExpenses, keyboards, tabs, targetExpense, tasks, faults, appended>>

aclVars == <<adminUserId, approvedUsers, savedUsers>>
botVars == <<adminUserId, approvedUsers, savedUsers, event, reply, pendingExpenses, keyboards>>
parseVars == <<msg, parsed>>
svcVars == <<tabs, targetExpense, tasks, faults, appended>>

\* last instant of the clock
MaxNow == 1

NoEvent == [kind |-> "none"]

NoPending == [key \in {} |-> 0]

\* the service is not running: an empty document and no calls
InitNoService ==
  /\ tabs = <<>>
  /\ targetExpense = [k |-> "fin", m |-> 0, e |-> 0]
  /\ tasks = <<>>
  /\ faults = 0
  /\ appended = [title \in {} |-> <<>>]

Tick ==
  /\ now < MaxNow
  /\ now' = now + 1
  /\ UNCHANGED <<parseVars, botVars, svcVars>>

(***************************************************************************)
(* The parser run on every message text built from a command word, a gap,  *)
(* an amount token and a rest.                                             *)
(***************************************************************************)
NotParsed == [success |-> FALSE, error |-> "not parsed"]

sEx == <<"/", "e", "x">>
sExAtB == <<"/", "e", "x", "@", "b">>
sExpenseAtB == sExpense \o <<"@", "b">>
sHello == <<"h", "e", "l", "l", "o">>

CmdWords == {sExpense, sEx, sExAtB, sExpenseAtB, sHello}
Gaps == {<<>>, <<" ">>, <<" ", " ">>}
TokChars == {"5", "0", ".", "-", "a"}
Tokens == UNION {[1..n -> TokChars] : n \in 0..MaxTok}
            \cup {sInfinity, <<"-">> \o sInfinity, <<"5", "e", "1">>, <<"1", "e", "-", "1">>}
Rests == {<<>>, <<" ", "a">>, <<" ", " ", "a", " ", " ", "b", " ">>}
Messages == [cmd : CmdWords, gap : Gaps, tok : Tokens, rest : Rests]

Text(m) == m.cmd \o m.gap \o m.tok \o m.rest

NoMessage == [cmd |-> <<>>, gap |-> <<>>, tok |-> <<>>, rest |-> <<>>]

InitParse ==
  /\ now = 0
  /\ msg \in Messages
  /\ parsed = NotParsed
  /\ adminUserId = 0
  /\ approvedUsers = <<>>
  /\ savedUsers = [exists |-> FALSE, ids |-> <<>>]
  /\ event = NoEvent
  /\ reply = ""
  /\ pendingExpenses = NoPending
  /\ keyboards = {}
  /\ InitNoService

Parse ==
  /\ parsed = NotParsed
  /\ parsed' = parseExpenseMessage(Text(msg), <<"u">>, now)
  /\ UNCHANGED <<now, msg, botVars, svcVars>>

NextParse == Parse \/ Tick

SpecParse == InitParse /\ [][NextParse]_vars

(***************************************************************************)
(* What the specification calls a numeric token: a whole decimal numeral,  *)
(* [+-] digits [. digits] [e [+-] digits], with at least one mantissa      *)
(* digit.                                                                  *)
(***************************************************************************)
IsNumeral(t) ==
  \E sg \in 0..1, ni \in 0..Len(t), dot \in 0..1, nf \in 0..Len(t), ex \in 0..1,
     es \in 0..1, ne \in 0..Len(t) :
    /\ sg + ni + dot + nf + ex + es + ne = Len(t)
    /\ ni + nf >= 1
    /\ dot = 0 => nf = 0
    /\ ex = 0 => (es = 0 /\ ne = 0)
    /\ ex = 1 => ne >= 1
    /\ sg = 1 => t[1] \in {"+", "-"}
    /\ \A i \in (sg + 1)..(sg + ni) : t[i] \in Digits
    /\ dot = 1 => t[sg + ni + 1] = "."
    /\ \A i \in (sg + ni + dot + 1)..(sg + ni + dot + nf) : t[i] \in Digits
    /\ ex = 1 => t[sg + ni + dot + nf + 1] \in {"e", "E"}
    /\ es = 1 => t[sg + ni + dot + nf + 2] \in {"+", "-"}
    /\ \A i \in (Len(t) - ne + 1)..Len(t) : t[i] \in Digits

\* the mantissa digits of a numeral: the digits before an exponent mark
MantissaDigits(t) ==
  LET stop == IF \E i \in 1..Len(t) : t[i] \in {"e", "E"}
              THEN CHOOSE i \in 1..Len(t) : t[i] \in {"e", "E"} /\ \A j \in 1..(i - 1) : t[j] \notin {"e", "E"}
              ELSE Len(t) + 1
  IN  {i \in 1..(stop - 1) : t[i] \in Digits}

\* a numeral whose value is > 0: no minus sign and a nonzero mantissa digit
IsPositiveNumeral(t) ==
  /\ IsNumeral(t)
  /\ t[1] # "-"
  /\ \E i \in MantissaDigits(t) : t[i] # "0"

\* the message is a recognized command word, white space, and then msg.tok
\* as its amount token
HasAmountToken(m) ==
  /\ m.cmd \in {sExpense, sEx, sExAtB}
  /\ m.gap # <<>>
  /\ m.tok # <<>>

InvalidAmountReported == parsed.success = FALSE /\ parsed.error = ErrAmount

\* C9: every command whose amount token is not a numeral, or is a numeral
\* with a value <= 0, is rejected with the invalid-amount error.
C9_NonPositiveOrNonNumericRejected ==
  (parsed # NotParsed /\ HasAmountToken(msg) /\ ~IsPositiveNumeral(msg.tok))
    => InvalidAmountReported

\* C10: every amount token that is a positive numeral followed by
\* non-numeric characters is rejected with the invalid-amount error.
C10_NumericPrefixRejected ==
  (/\ parsed # NotParsed
   /\ HasAmountToken(msg)
   /\ ~IsNumeral(msg.tok)
   /\ \E n \in 1..(Len(msg.tok) - 1) :
        /\ IsPositiveNumeral(SubSeq(msg.tok, 1, n))
        /\ msg.tok[n + 1] \in Letters)
    => InvalidAmountReported

\* the words of a text: its maximal runs of characters that are not white space
RECURSIVE Words(_)
Words(s) ==
  IF s = <<>> THEN <<>>
  ELSE IF Head(s) \in WhiteSpace THEN Words(Tail(s))
  ELSE <<SubSeq(s, 1, RunNot(s, WhiteSpace))>> \o Words(Slice(s, RunNot(s, WhiteSpace)))

\* words set one after the other with one space between two of them
RECURSIVE Spaced(_)
Spaced(ws) ==
  IF ws = <<>> THEN <<>>
  ELSE IF Len(ws) = 1 THEN ws[1]
  ELSE ws[1] \o <<" ">> \o Spaced(Tail(ws))

\* the message is a recognized command word, white space, and a whole
\* positive numeral as its amount token
HasValidAmount(m) == HasAmountToken(m) /\ IsPositiveNumeral(m.tok)

WithoutSuffix(m) == [m EXCEPT !.cmd = IF m.cmd = sExpenseAtB THEN sExpense ELSE sEx]

\* C13: a command word with a bot-username suffix, long form or short form,
\* followed by a valid amount parses to the amount and description the same
\* message without the suffix parses to.
C13_UsernameSuffixStripped ==
  (/\ parsed # NotParsed
   /\ msg.cmd \in {sExpenseAtB, sExAtB}
   /\ msg.gap # <<>>
   /\ IsPositiveNumeral(msg.tok))
    => LET plain == parseExpenseMessage(Text(WithoutSuffix(msg)), <<"u">>, now)
       IN  /\ plain.success
           /\ parsed.success
           /\ parsed.expense.amount = plain.expense.amount
           /\ parsed.expense.description = plain.expense.description

\* C14: a text that starts with no command word gets the missing-prefix
\* error, and a command word, long form or short form, followed by no token
\* gets the missing-amount error; the three errors are distinct.
C14_ThreeDistinctErrors ==
  /\ Cardinality({ErrPrefix, ErrFormat, ErrAmount}) = 3
  /\ (parsed # NotParsed /\ msg.cmd = sHello)
       => parsed = [success |-> FALSE, error |-> ErrPrefix]
  /\ (parsed # NotParsed /\ msg.cmd \in {sExpense, sEx} /\ Words(msg.tok \o msg.rest) = <<>>)
       => parsed = [success |-> FALSE, error |-> ErrFormat]

(***************************************************************************)
(* bot.ts: the approved-user list and the admin commands.                  *)
(***************************************************************************)
\* the largest Telegram user id
MaxUser == 3
\* the longest list approved_users.json holds at startup
MaxFile == 2

UserIds == 1..MaxUser

\* s with x added at the end unless it is there: Set.add
SetAdd(s, x) == IF \E i \in 1..Len(s) : s[i] = x THEN s ELSE Append(s, x)

\* s without x: Set.delete
RECURSIVE SetDelete(_, _)
SetDelete(s, x) ==
  IF s = <<>> THEN <<>>
  ELSE IF Head(s) = x THEN SetDelete(Tail(s), x)
  ELSE <<Head(s)>> \o SetDelete(Tail(s), x)

SetHas(s, x) == \E i \in 1..Len(s) : s[i] = x

\* userIds.forEach(id => approvedUsers.add(id))
RECURSIVE AddAll(_, _)
AddAll(s, ids) == IF ids = <<>> THEN s ELSE AddAll(SetAdd(s, Head(ids)), Tail(ids))

loadApprovedUsers(file) == IF file.exists THEN AddAll(<<>>, file.ids) ELSE <<>>

\* parseInt(digits, 10) of a digit string beyond the range of a double is
\* Infinity: the id that stands for it
InfiniteId == MaxUser + 1
\* null in the file
NullId == 0 - 1

\* JSON.stringify writes a finite number as it is and Infinity as null
JsonNumber(id) == IF id = InfiniteId THEN NullId ELSE id

\* JSON.stringify(Array.from(approvedUsers), null, 2) written to the file
saveApprovedUsers(set) ==
  [exists |-> TRUE, ids |-> [i \in 1..Len(set) |-> JsonNumber(set[i])]]

isUserApproved(userId, admin, set) ==
  IF admin # 0 /\ userId = admin THEN TRUE ELSE SetHas(set, userId)

isAdmin(userId, admin) == userId = admin

\* the argument of an admin command: none, a user name, or digits
AdminArgs == {[kind |-> "none", id |-> 0], [kind |-> "name", id |-> 0]}
               \cup {[kind |-> "id", id |-> n] : n \in 0..MaxUser \cup {InfiniteId}}

DeniedAdminOnly == "Access denied. Admin only."
CannotUnapproveAdmin == "Cannot unapprove the admin user."

\* main(): the list is loaded, then the admin, if configured, is approved and the list saved
InitAcl(admin, file) ==
  /\ adminUserId = admin
  /\ approvedUsers = IF admin # 0 THEN SetAdd(loadApprovedUsers(file), admin)
                     ELSE loadApprovedUsers(file)
  /\ savedUsers = IF admin # 0
                  THEN saveApprovedUsers(SetAdd(loadApprovedUsers(file), admin))
                  ELSE file
  /\ event = NoEvent
  /\ reply = ""

Files == {[exists |-> FALSE, ids |-> <<>>]}
           \cup {[exists |-> TRUE, ids |-> l] : l \in UNION {[1..n -> UserIds] : n \in 0..MaxFile}}

ApprovedText == "User has been approved."
UnapprovedText == "User has been unapproved."

\* the /approve handler without its isAdmin check
ApproveResultAnyone(from, arg, admin, set) ==
  IF arg.kind = "name"
  THEN [set |-> set, save |-> FALSE, reply |-> "Please provide a User ID (number), not a username."]
  ELSE IF arg.kind = "id" /\ arg.id # 0
       THEN [set |-> SetAdd(set, arg.id), save |-> TRUE, reply |-> ApprovedText]
  ELSE [set |-> set, save |-> FALSE, reply |-> "Approve User: usage"]

\* bot.onText(/\/approve.../)
ApproveResult(from, arg, admin, set) ==
  IF ~isAdmin(from, admin) THEN [set |-> set, save |-> FALSE, reply |-> DeniedAdminOnly]
  ELSE IF arg.kind = "name"
       THEN [set |-> set, save |-> FALSE, reply |-> "Please provide a User ID (number), not a username."]
  ELSE IF arg.kind = "id" /\ arg.id # 0
       THEN [set |-> SetAdd(set, arg.id), save |-> TRUE, reply |-> ApprovedText]
  ELSE [set |-> set, save |-> FALSE, reply |-> "Approve User: usage"]

OnApprove(from, arg) ==
  LET r == ApproveResult(from, arg, adminUserId, approvedUsers)
  IN  /\ approvedUsers' = r.set
      /\ savedUsers' = IF r.save THEN saveApprovedUsers(r.set) ELSE savedUsers
      /\ reply' = r.reply
      /\ event' = [kind |-> "approve", from |-> from, arg |-> arg]
      /\ UNCHANGED <<adminUserId, pendingExpenses, keyboards, now, parseVars, svcVars>>

UnapproveResultNoGuard(from, arg, admin, set) ==
  IF ~isAdmin(from, admin) THEN [set |-> set, save |-> FALSE, reply |-> DeniedAdminOnly]
  ELSE IF arg.kind = "id" /\ arg.id # 0
       THEN [set |-> SetDelete(set, arg.id), save |-> TRUE, reply |-> UnapprovedText]
  ELSE [set |-> set, save |-> FALSE, reply |-> "Unapprove User: usage"]

\* bot.onText(/\/unapprove.../)
UnapproveResult(from, arg, admin, set) ==
  IF ~isAdmin(from, admin) THEN [set |-> set, save |-> FALSE, reply |-> DeniedAdminOnly]
  ELSE IF arg.kind = "id" /\ arg.id # 0
       THEN (IF arg.id = admin
             THEN [set |-> set, save |-> FALSE, reply |-> CannotUnapproveAdmin]
             ELSE [set |-> SetDelete(set, arg.id), save |-> TRUE, reply |-> UnapprovedText])
  ELSE [set |-> set, save |-> FALSE, reply |-> "Unapprove User: usage"]

OnUnapprove(from, arg) ==
  LET r == UnapproveResult(from, arg, adminUserId, approvedUsers)
  IN  /\ approvedUsers' = r.set
      /\ savedUsers' = IF r.save THEN saveApprovedUsers(r.set) ELSE savedUsers
      /\ reply' = r.reply
      /\ event' = [kind |-> "unapprove", from |-> from, arg |-> arg]
      /\ UNCHANGED <<adminUserId, pendingExpenses, keyboards, now, parseVars, svcVars>>

\* bot.onText(/\/list_approved/)
OnListApproved(from) ==
  /\ reply' = IF ~isAdmin(from, adminUserId) THEN DeniedAdminOnly
              ELSE IF Len(approvedUsers) = 0 THEN "No approved users yet."
              ELSE "Approved Users"
  /\ event' = [kind |-> "list_approved", from |-> from]
  /\ UNCHANGED <<aclVars, pendingExpenses, keyboards, now, parseVars, svcVars>>

Approve == \E from \in UserIds, arg \in AdminArgs : OnApprove(from, arg)
Unapprove == \E from \in UserIds, arg \in AdminArgs : OnUnapprove(from, arg)
ListApproved == \E from \in UserIds : OnListApproved(from)

InitAclSpec ==
  /\ now = 0
  /\ msg = NoMessage
  /\ parsed = NotParsed
  /\ pendingExpenses = NoPending
  /\ keyboards = {}
  /\ InitNoService
  /\ \E admin \in 0..MaxUser, file \in Files : InitAcl(admin, file)

NextAcl == Approve \/ Unapprove \/ ListApproved

SpecAcl == InitAclSpec /\ [][NextAcl]_vars

\* C7: the configured admin is approved in every state, and an unapprove
\* command that targets the admin is refused and leaves the approved set
\* and the saved list as they were.
C7_AdminAlwaysApproved ==
  /\ [](adminUserId # 0 => isUserApproved(adminUserId, adminUserId, approvedUsers))
  /\ [][(/\ adminUserId # 0
         /\ event'.kind = "unapprove"
         /\ event'.arg = [kind |-> "id", id |-> adminUserId])
        => (/\ approvedUsers' = approvedUsers
            /\ savedUsers' = savedUsers
            /\ reply' \in {CannotUnapproveAdmin, DeniedAdminOnly})]_vars

\* the admin has sent an unapprove command naming itself and was refused
C7_Witness ==
  /\ adminUserId # 0
  /\ event.kind = "unapprove"
  /\ event.from = adminUserId
  /\ event.arg = [kind |-> "id", id |-> adminUserId]
  /\ reply = CannotUnapproveAdmin
  /\ isUserApproved(adminUserId, adminUserId, approvedUsers)

\* the handler of the last command called approveUser or removeApproval
Performed ==
  \/ event.kind = "approve" /\ reply = ApprovedText
  \/ event.kind = "unapprove" /\ reply = UnapprovedText

\* the command of the last event, handled once more in this state
Repeated ==
  IF event.kind = "approve"
  THEN ApproveResult(event.from, event.arg, adminUserId, approvedUsers)
  ELSE UnapproveResult(event.from, event.arg, adminUserId, approvedUsers)

Members(s) == {s[i] : i \in 1..Len(s)}
NoDuplicates(s) == \A i, j \in 1..Len(s) : s[i] = s[j] => i = j

\* C29: after an approve or a revoke the saved list holds exactly the members
\* of the approved set, each once, and the same command handled once more
\* leaves the set and the saved list as they are
C29_ApproveRevokeIdempotentAndSaved ==
  Performed =>
    /\ savedUsers.exists
    /\ Members(savedUsers.ids) = Members(approvedUsers)
    /\ NoDuplicates(savedUsers.ids)
    /\ Repeated.set = approvedUsers
    /\ Repeated.save /\ saveApprovedUsers(Repeated.set) = savedUsers

\* the same for the commands that name an id a double holds
C29_FiniteIds ==
  (Performed /\ InfiniteId \notin Members(approvedUsers))
    => (/\ savedUsers.exists
        /\ savedUsers.ids = approvedUsers
        /\ NoDuplicates(savedUsers.ids)
        /\ Repeated.set = approvedUsers
        /\ Repeated.save /\ saveApprovedUsers(Repeated.set) = savedUsers)

\* an admin command of someone who is not the configured admin
FromNonAdmin(e) ==
  e.kind \in {"approve", "unapprove", "list_approved"} /\ ~isAdmin(e.from, adminUserId)

\* C30: an approve, unapprove or list-approved command of a sender who is not
\* the configured admin is answered with the denial and changes neither the
\* approved set nor the saved list; the two change only in a step that handles
\* an approve or unapprove command of the configured admin, and never when no
\* admin is configured
C30_OnlyAdminChangesApprovals ==
  /\ [][FromNonAdmin(event')
         => (/\ reply' = DeniedAdminOnly
             /\ approvedUsers' = approvedUsers
             /\ savedUsers' = savedUsers)]_vars
  /\ [][(approvedUsers' # approvedUsers \/ savedUsers' # savedUsers)
         => (/\ adminUserId # 0
             /\ event'.kind \in {"approve", "unapprove"}
             /\ event'.from = adminUserId)]_vars

\* someone who is not the admin asked to approve an id that is not approved,
\* and was denied
C30_Witness ==
  /\ event.kind = "approve"
  /\ event.from # adminUserId
  /\ event.arg.kind = "id" /\ event.arg.id # 0
  /\ reply = DeniedAdminOnly
  /\ ~SetHas(approvedUsers, event.arg.id)

(***************************************************************************)
(* types.ts                                                                *)
(***************************************************************************)
sFuel == <<"F", "u", "e", "l">>
sNone == <<"N", "o", "n", "e">>

EXPENSE_TYPES ==
  <<<<"S", "u", "p", "e", "r", " ", "M", "a", "r", "k", "e", "t">>,
    sFuel,
    <<"C", "a", "r", " ", "R", "e", "p", "a", "i", "r">>,
    <<"P", "h", "a", "r", "m", "a", "c", "y">>,
    <<"R", "e", "n", "t">>,
    <<"O", "t", "h", "e", "r">>,
    sNone,
    <<"S", "a", "l", "o", "n">>,
    <<"H", "o", "s", "p", "i", "t", "a", "l">>,
    <<"B", "r", "u", "n", "o">>,
    <<"B", "i", "l", "l", "s">>,
    <<"C", "a", "r">>>>

(***************************************************************************)
(* The spreadsheet document behind the Sheets API, as sheets.ts uses it:   *)
(* a list of tabs, each a title and a sparse grid of cells addressed by    *)
(* <<row, column>> (column A is 1).  A cell holds a text, a number or a    *)
(* formula.  A value of a request body is a text or a number.              *)
(***************************************************************************)
sTargetExpense == <<"T", "a", "r", "g", "e", "t", " ", "E", "x", "p", "e",
    "n", "s", "e">>
sTotalExpenses == <<"T", "o", "t", "a", "l", " ", "E", "x", "p", "e", "n",
    "s", "e", "s">>
sRemain == <<"R", "e", "m", "a", "i", "n">>
sDate == <<"D", "a", "t", "e">>
sType == <<"T", "y", "p", "e">>
sAmount == <<"A", "m", "o", "u", "n", "t">>
sDescription == <<"D", "e", "s", "c", "r", "i", "p", "t", "i", "o", "n">>
fSum == <<"=", "S", "U", "M", "(", "C", "6", ":", "C", ")">>
fRemain == <<"=", "F", "5", "-", "G", "5">>
sSumIfHead == <<"=", "S", "U", "M", "I", "F", "(", "B", "6", ":", "B", ",",
    " ", "\"">>
sSumIfTail == <<"\"", ",", " ", "C", "6", ":", "C", ")">>
sJan2026 == <<"J", "a", "n", " ", "2", "0", "2", "6">>
sFeb2026 == <<"F", "e", "b", " ", "2", "0", "2", "6">>

StrCell(s) == [k |-> "str", s |-> s, n |-> NaN]
NumCell(x) == [k |-> "num", s |-> <<>>, n |-> x]
FormulaCell(s) == [k |-> "formula", s |-> s, n |-> NaN]

JsText(s) == [t |-> "string", s |-> s, n |-> NaN]
JsNum(x) == [t |-> "number", s |-> <<>>, n |-> x]

\* a range: rows r1..r2 (r2 = 0: to the end of the tab), columns c1..c2
Rg(r1, c1, r2, c2) == [r1 |-> r1, c1 |-> c1, r2 |-> r2, c2 |-> c2]

InRange(rc, rg) ==
  /\ rc[1] >= rg.r1
  /\ rg.r2 = 0 \/ rc[1] <= rg.r2
  /\ rc[2] >= rg.c1
  /\ rc[2] <= rg.c2

NoCells == [rc \in {} |-> StrCell(<<>>)]

SetMax(S) == IF S = {} THEN 0 ELSE CHOOSE x \in S : \A y \in S : y <= x

\* JSON.stringify sends NaN and Infinity as null, and the API skips a null
SkippedValue(v) == v.t = "number" /\ v.n.k # "fin"
\* an empty text empties the cell
ClearingValue(v) == v.t = "string" /\ v.s = <<>>

\* valueInputOption RAW: the value is stored as it is
RawCell(v) == IF v.t = "number" THEN NumCell(v.n) ELSE StrCell(v.s)

\* valueInputOption USER_ENTERED: the value is read as if typed into the cell
UserEnteredCell(v) ==
  LET ni == Run(v.s, Digits)
      rest == Slice(v.s, ni)
      typedNumber == ni > 0 /\ (rest = <<>> \/ (Head(rest) = "." /\ Run(Tail(rest), Digits) = Len(rest) - 1))
  IN  IF v.t = "number" THEN NumCell(v.n)
      ELSE IF startsWith(v.s, <<"=">>) THEN FormulaCell(v.s)
      ELSE IF typedNumber THEN NumCell(parseFloat(v.s))
      ELSE StrCell(v.s)

\* spreadsheets.values.update: rows written from <<r, c>> on
UpdateCells(cells, r, c, rows, mode) ==
  LET targets == {<<r + i - 1, c + j - 1>> : <<i, j>> \in
                    {ij \in (1..Len(rows)) \X (1..SetMax({Len(rows[i]) : i \in 1..Len(rows)})) :
                       ij[2] <= Len(rows[ij[1]])}}
      val(rc) == rows[rc[1] - r + 1][rc[2] - c + 1]
      cleared == {rc \in targets : ClearingValue(val(rc))}
      written == {rc \in targets : ~ClearingValue(val(rc)) /\ ~SkippedValue(val(rc))}
  IN  [rc \in ((DOMAIN cells) \ cleared) \cup written |->
         IF rc \in written
         THEN (IF mode = "RAW" THEN RawCell(val(rc)) ELSE UserEnteredCell(val(rc)))
         ELSE cells[rc]]

\* the last row holding a value in the range, 0 when the range is empty
LastRow(cells, rg) == SetMax({rc[1] : rc \in {x \in DOMAIN cells : InRange(x, rg)}})

\* spreadsheets.values.append: the row goes under the last row of the data
\* found in the range
AppendCells(cells, rg, row) ==
  UpdateCells(cells, LastRow(cells, rg) + 1, rg.c1, <<row>>, "RAW")

\* spreadsheets.values.clear
ClearCells(cells, rg) ==
  [rc \in {x \in DOMAIN cells : ~InRange(x, rg)} |-> cells[rc]]

RECURSIVE NatDigits(_)
NatDigits(n) ==
  IF n < 10 THEN <<CHOOSE c \in Digits : DigitVal(c) = n>>
  ELSE NatDigits(n \div 10) \o <<CHOOSE c \in Digits : DigitVal(c) = n % 10>>

RECURSIVE PadZeros(_, _)
PadZeros(ds, n) == IF Len(ds) >= n THEN ds ELSE PadZeros(<<"0">> \o ds, n)

\* the text a number cell is read back as: the data cells carry no number
\* format, and the numbers written here have few enough digits to be shown in
\* full
FormatNum(x) ==
  LET abs == IF x.m < 0 THEN -x.m ELSE x.m
      ip == abs \div Pow10(x.e)
      fp == abs % Pow10(x.e)
  IN  (IF x.m < 0 THEN <<"-">> ELSE <<>>) \o NatDigits(ip)
        \o (IF x.e > 0 THEN <<".">> \o PadZeros(NatDigits(fp), x.e) ELSE <<>>)

RECURSIVE SumCells(_, _)
SumCells(cells, S) ==
  IF S = {} THEN Num(0)
  ELSE LET rc == CHOOSE x \in S : TRUE
       IN  Add(IF cells[rc].k = "num" THEN cells[rc].n ELSE Num(0), SumCells(cells, S \ {rc}))

SumIfFormula(type) == sSumIfHead \o type \o sSumIfTail

\* the value of the amount column from row 6 on: SUM(C6:C)
SumAmounts(cells) == SumCells(cells, {rc \in DOMAIN cells : rc[1] >= 6 /\ rc[2] = 3})

\* the value a formula cell shows
FormulaValue(cells, f) ==
  LET f5 == IF <<5, 6>> \in DOMAIN cells /\ cells[<<5, 6>>].k = "num" THEN cells[<<5, 6>>].n ELSE Num(0)
      neg(x) == [x EXCEPT !.m = -x.m]
  IN  IF f = fSum THEN FormatNum(SumAmounts(cells))
      ELSE IF f = fRemain THEN FormatNum(Add(f5, neg(SumAmounts(cells))))
      ELSE IF \E i \in 1..Len(EXPENSE_TYPES) : f = SumIfFormula(EXPENSE_TYPES[i])
      THEN FormatNum(SumCells(cells,
             {rc \in DOMAIN cells :
                /\ rc[1] >= 6 /\ rc[2] = 3
                /\ <<rc[1], 2>> \in DOMAIN cells
                /\ SumIfFormula(cells[<<rc[1], 2>>].s) = f}))
      ELSE <<"#", "N", "A", "M", "E", "?">>

\* the text spreadsheets.values.get gives for a cell
Display(cells, rc) ==
  IF cells[rc].k = "str" THEN cells[rc].s
  ELSE IF cells[rc].k = "num" THEN FormatNum(cells[rc].n)
  ELSE FormulaValue(cells, cells[rc].s)

\* spreadsheets.values.get: the rows up to the last one holding a value, each
\* up to its last value; no rows at all when the range is empty
GetValues(cells, rg) ==
  LET last == LastRow(cells, rg)
      lastCol(r) == SetMax({rc[2] : rc \in {x \in DOMAIN cells : x[1] = r /\ InRange(x, rg)}})
  IN  IF last = 0 THEN <<>>
      ELSE [i \in 1..(last - rg.r1 + 1) |->
              LET r == rg.r1 + i - 1
              IN  [j \in 1..(IF lastCol(r) = 0 THEN 0 ELSE lastCol(r) - rg.c1 + 1) |->
                     IF <<r, rg.c1 + j - 1>> \in DOMAIN cells
                     THEN Display(cells, <<r, rg.c1 + j - 1>>) ELSE <<>>]]

\* row[i] of a row read back (i from 0): undefined past its end
At(row, i) == IF i + 1 <= Len(row) THEN row[i + 1] ELSE Undefined

HasTab(ts, title) == \E i \in 1..Len(ts) : ts[i].title = title
TabIndex(ts, title) == CHOOSE i \in 1..Len(ts) : ts[i].title = title
CellsOf(ts, title) == ts[TabIndex(ts, title)].cells
SetCells(ts, title, cells) == [ts EXCEPT ![TabIndex(ts, title)].cells = cells]
\* batchUpdate addSheet: a new empty tab at the end of the list
AddSheet(ts, title) == Append(ts, [title |-> title, cells |-> NoCells, fmt |-> {}])
\* batchUpdate repeatCell: the number or colour format of a block of cells
AddFormat(ts, title, f) == [ts EXCEPT ![TabIndex(ts, title)].fmt = @ \cup {f}]
\* spreadsheet.data.sheets.map(sheet => sheet.properties.title)
Titles(ts) == [i \in 1..Len(ts) |-> ts[i].title]


-----------------------------------------------------------------------------
\* sheets.ts: the calls of SheetsService.  A call in flight is a task: pc is
\* the backend request it waits for, ret the stack of places to return to.
\* One step is the backend serving that request together with the code that
\* runs on its answer, up to the next request.

\* months[date.getMonth()] + ' ' + date.getFullYear() of the current date
\* const months = ['Jan', 'Feb', ..., 'Dec']
months ==
  <<<<"J", "a", "n">>, <<"F", "e", "b">>, <<"M", "a", "r">>, <<"A", "p", "r">>,
    <<"M", "a", "y">>, <<"J", "u", "n">>, <<"J", "u", "l">>, <<"A", "u", "g">>,
    <<"S", "e", "p">>, <<"O", "c", "t">>, <<"N", "o", "v">>, <<"D", "e", "c">>>>

\* `${months[date.getMonth()]} ${date.getFullYear()}`, the month counted from 0
MonthlyName(year, month) == months[month + 1] \o <<" ">> \o NatDigits(year)

\* date.getFullYear() and date.getMonth() at instant t of the clock: the
\* clock starts in January 2026 and reaches February at MsToMonthEnd
getFullYear(t) == 2026
getMonth(t) == IF t < MsToMonthEnd THEN 0 ELSE 1

getMonthlySheetName(t) == MonthlyName(getFullYear(t), getMonth(t))

\* a filter that takes the full English month names
monthlySheetPatternLong(name) ==
  \E m \in {<<"J", "a", "n", "u", "a", "r", "y">>, <<"F", "e", "b", "r", "u", "a", "r", "y">>} :
    /\ startsWith(name, m \o <<" ">>)
    /\ Len(name) = Len(m) + 5
    /\ \A i \in (Len(m) + 2)..Len(name) : name[i] \in Digits

\* /^(Jan|Feb|Mar|Apr|May|Jun|Jul|Aug|Sep|Oct|Nov|Dec) \d{4}$/.test(name)
monthlySheetPattern(name) ==
  /\ Len(name) = 8
  /\ \E m \in 1..12 : SubSeq(name, 1, 3) = months[m]
  /\ name[4] = " "
  /\ \A i \in 5..8 : name[i] \in Digits

NoExpense ==
  [date |-> <<>>, type |-> Undefined, amount |-> NaN, description |-> <<>>,
   username |-> Undefined]

NoCallback == <<>>

NewTask(op, pc, ret) ==
  [op |-> op, pc |-> pc, ret |-> ret, sheet |-> <<>>, e |-> NoExpense,
   tgt |-> NaN, orig |-> NaN, cap |-> NaN, names |-> <<>>, rows |-> <<>>,
   total |-> NaN, res |-> "", writes |-> 0, dup |-> FALSE, logged |-> FALSE,
   auth |-> TRUE, cb |-> NoCallback, failed |-> {},
   format |-> "", keep |-> FALSE, data |-> <<>>]

\* the places a task can be after an answer that are not backend requests
Places ==
  {"ret", "throw", "ens_ret", "log_row", "log_done", "tgt_done", "exp_names",
   "exp_rows", "all_names", "tot_sum", "rst_names", "rst_created", "rst_done", "end",
   "cb_logged", "cb_reset", "h_total", "h_target", "init_bd", "is_fmt",
   "mig_names", "mig_created", "mig_fmt", "mig_inited", "mig_struct", "mig_done", "mig_end"}

\* the catch block that takes an error thrown below the place l: none when
\* the block between only rethrows
Catches(l) ==
  l \in {"rst_names", "rst_created", "rst_done", "end", "cb_logged", "h_total", "h_target",
         "mig_names", "mig_created", "mig_fmt", "mig_inited", "mig_struct", "mig_done", "mig_end"}

RECURSIVE Unwind(_)
Unwind(ret) == IF Catches(Head(ret)) THEN ret ELSE Unwind(Tail(ret))

\* rows.map(row => ({date: row[0] || '', type: row[1] || undefined,
\*                   amount: parseFloat(row[2]) || 0, description: row[3] || ''}))
MapRow(row) ==
  [date |-> IF FalsyText(At(row, 0)) THEN <<>> ELSE At(row, 0),
   type |-> IF FalsyText(At(row, 1)) THEN Undefined ELSE At(row, 1),
   amount |-> IF FalsyNum(parseFloat(At(row, 2))) THEN Num(0) ELSE parseFloat(At(row, 2)),
   description |-> IF FalsyText(At(row, 3)) THEN <<>> ELSE At(row, 3)]

MapRows(rows) == [i \in 1..Len(rows) |-> MapRow(rows[i])]

\* expenses.reduce((sum, expense) => sum + expense.amount, 0)
RECURSIVE SumExpenses(_)
SumExpenses(es) ==
  IF es = <<>> THEN Num(0)
  ELSE Add(SumExpenses(SubSeq(es, 1, Len(es) - 1)), es[Len(es)].amount)

\* the row of the earlier layout, which has no type column
ExpenseRowNoType(e) == <<JsText(e.date), JsNum(e.amount), JsText(e.description)>>

\* [expense.date, expense.type || '', expense.amount, expense.description]
ExpenseRow(e) ==
  <<JsText(e.date), JsText(IF FalsyText(e.type) THEN <<>> ELSE e.type),
    JsNum(e.amount), JsText(e.description)>>

\* a handler that has ended: what it kept on the way is dropped
Done(t, res) ==
  [t EXCEPT !.pc = "done", !.ret = <<>>, !.res = res, !.names = <<>>,
            !.orig = NaN, !.cap = NaN]

\* the code that runs on an answer, from place to place, until the task waits
\* for the next request or has ended
RECURSIVE Cont(_)
Cont(t) ==
  IF t.pc \notin Places THEN t
  ELSE IF t.pc = "ret" THEN Cont([t EXCEPT !.pc = Head(t.ret), !.ret = Tail(t.ret)])
  ELSE IF t.pc = "throw" THEN
    LET ret == Unwind(t.ret)
        at == Head(ret)
    IN  IF at \in {"rst_names", "rst_created", "rst_done"}
        THEN Cont([t EXCEPT !.pc = "ret", !.ret = Tail(ret), !.res = "fail"])
        ELSE IF at \in {"mig_names", "mig_created", "mig_fmt", "mig_inited", "mig_struct", "mig_done", "mig_end"}
        THEN Cont([t EXCEPT !.pc = "ret", !.ret = Tail(ret), !.res = "fail", !.data = <<>>])
        ELSE Done(t, "error")
  ELSE IF t.pc \in {"ens_ret", "log_done", "tgt_done"} THEN Cont([t EXCEPT !.pc = "ret"])
  ELSE IF t.pc = "log_row" THEN [t EXCEPT !.pc = "log_append"]
  ELSE IF t.pc = "exp_names" THEN
    IF \E i \in 1..Len(t.names) : t.names[i] = t.sheet
    THEN [t EXCEPT !.pc = "exp_get", !.ret = <<"exp_rows">> \o @]
    ELSE Cont([t EXCEPT !.pc = "ret", !.rows = <<>>])
  ELSE IF t.pc = "exp_rows" THEN Cont([t EXCEPT !.pc = "ret"])
  ELSE IF t.pc = "all_names" THEN
    IF SelectSeq(t.names, monthlySheetPattern) = <<>>
    THEN Cont([t EXCEPT !.pc = "ret", !.rows = <<>>])
    ELSE [t EXCEPT !.pc = "all_get", !.names = SelectSeq(t.names, monthlySheetPattern), !.rows = <<>>]
  ELSE IF t.pc = "tot_sum" THEN Cont([t EXCEPT !.pc = "ret", !.total = SumExpenses(t.rows)])
  ELSE IF t.pc = "rst_names" THEN
    IF \E i \in 1..Len(t.names) : t.names[i] = t.sheet
    THEN [t EXCEPT !.pc = "rst_clear"]
    ELSE [t EXCEPT !.pc = "ens_get", !.ret = <<"rst_created">> \o @]
  ELSE IF t.pc \in {"rst_created", "rst_done"} THEN Cont([t EXCEPT !.pc = "ret", !.res = "ok"])
  ELSE IF t.pc = "init_bd" THEN [t EXCEPT !.pc = "fmt_apply"]
  ELSE IF t.pc = "is_fmt" THEN [t EXCEPT !.pc = "is_bd"]
  ELSE IF t.pc = "mig_names" THEN
    IF \E i \in 1..Len(t.names) : t.names[i] = t.sheet
    THEN [t EXCEPT !.pc = "det_new", !.ret = <<"mig_fmt">> \o @]
    ELSE [t EXCEPT !.pc = "ens_get", !.ret = <<"mig_created">> \o @]
  ELSE IF t.pc = "mig_fmt" THEN
    IF t.format = "new" THEN Cont([t EXCEPT !.pc = "ret", !.res = "ok"])
    ELSE IF t.format = "unknown" THEN [t EXCEPT !.pc = "init_f4", !.ret = <<"mig_inited">> \o @]
    ELSE [t EXCEPT !.pc = IF t.keep THEN "mig_read" ELSE "mig_clear"]
  ELSE IF t.pc = "mig_struct" THEN
    IF t.data # <<>> THEN [t EXCEPT !.pc = "mig_write"]
    ELSE Cont([t EXCEPT !.pc = "ret", !.res = "ok"])
  ELSE IF t.pc \in {"mig_created", "mig_inited", "mig_done"} THEN Cont([t EXCEPT !.pc = "ret", !.res = "ok"])
  ELSE IF t.pc = "mig_end" THEN Cont([t EXCEPT !.pc = "ret"])
  ELSE IF t.pc = "cb_logged" THEN Done(t, "logged")
  ELSE IF t.pc = "cb_reset" THEN Done(t, IF t.res = "ok" THEN "reset" ELSE "error")
  ELSE IF t.pc \in {"h_total", "h_target"} THEN Done(t, "ok")
  ELSE Done(t, IF t.res = "" THEN "ok" ELSE t.res)

\* the places passed on the way
RECURSIVE Passed(_)
Passed(t) ==
  IF t.pc \notin Places THEN {}
  ELSE IF t.pc = "ret" THEN Passed([t EXCEPT !.pc = Head(t.ret), !.ret = Tail(t.ret)])
  ELSE IF t.pc = "throw" THEN {"throw"}
  ELSE {t.pc} \cup
       (IF t.pc \in {"ens_ret", "log_done", "tgt_done", "exp_rows", "tot_sum", "rst_created", "rst_done"}
        THEN Passed([t EXCEPT !.pc = "ret"]) ELSE {})

\* whether the backend fails the request for a reason of its own
Inject == IF faults > 0 THEN {FALSE, TRUE} ELSE {FALSE}

MapDelete(f, key) == [x \in (DOMAIN f) \ {key} |-> f[x]]

\* Step with a handler that deletes the pending expense in its catch as well
StepForgetsOnError(i, inj, t1, tabs1, app1) ==
  LET t2 == Cont(IF inj THEN [t1 EXCEPT !.failed = @ \cup {tasks[i].pc}] ELSE t1)
      passed == Passed(t1)
  IN  /\ tasks' = [tasks EXCEPT ![i] = t2]
      /\ tabs' = tabs1
      /\ appended' = app1
      /\ faults' = IF inj THEN faults - 1 ELSE faults
      /\ targetExpense' = IF passed \cap {"rst_created", "rst_done"} # {}
                          THEN t1.orig ELSE targetExpense
      /\ pendingExpenses' = IF t2.pc = "done" /\ t2.cb # NoCallback
                            THEN MapDelete(pendingExpenses, t1.cb) ELSE pendingExpenses
      /\ UNCHANGED <<now, parseVars, aclVars, event, reply, keyboards>>

\* task i has its answer: t1 is the task at the place the answer leads to,
\* tabs1 the document and app1 the history after the request; failed keeps
\* the requests of the task that the backend failed
Step(i, inj, t1, tabs1, app1) ==
  LET t2 == Cont(IF inj THEN [t1 EXCEPT !.failed = @ \cup {tasks[i].pc}] ELSE t1)
      passed == Passed(t1)
  IN  /\ tasks' = [tasks EXCEPT ![i] = t2]
      /\ tabs' = tabs1
      /\ appended' = app1
      /\ faults' = IF inj THEN faults - 1 ELSE faults
      /\ targetExpense' = IF passed \cap {"rst_created", "rst_done"} # {}
                          THEN t1.orig ELSE targetExpense
      /\ pendingExpenses' = IF "cb_logged" \in passed
                            THEN MapDelete(pendingExpenses, t1.cb) ELSE pendingExpenses
      /\ UNCHANGED <<now, parseVars, aclVars, event, reply, keyboards>>

To(t, pc) == [t EXCEPT !.pc = pc]
Wrote(t, pc) == [t EXCEPT !.pc = pc, !.writes = @ + 1]
Written(t, r, c, rows, mode) ==
  SetCells(tabs, t.sheet, UpdateCells(CellsOf(tabs, t.sheet), r, c, rows, mode))
Known(t) == HasTab(tabs, t.sheet)

\* a check that never finds the tab
sheetExistsNever(ts, sheetName) == FALSE

\* spreadsheet.data.sheets?.some(sheet => sheet.properties?.title === sheetName)
sheetExists(ts, sheetName) == HasTab(ts, sheetName)

\* ensureMonthlySheetExists: spreadsheets.get, then the check of the titles
ens_get ==
  \E i \in 1..Len(tasks) :
  LET t == tasks[i]
  IN  /\ t.pc = "ens_get"
      /\ \E inj \in Inject :
           Step(i, inj,
                IF inj THEN To(t, "throw")
                ELSE IF sheetExists(tabs, t.sheet) THEN To(t, "ret") ELSE To(t, "ens_add"),
                tabs, appended)

\* ensureMonthlySheetExists: batchUpdate addSheet, refused when a tab of that
\* title exists; then initializeSheetStructure
ens_add ==
  \E i \in 1..Len(tasks) :
  LET t == tasks[i]
  IN  /\ t.pc = "ens_add"
      /\ \E inj \in Inject :
           IF inj THEN Step(i, inj, To(t, "throw"), tabs, appended)
           ELSE IF Known(t) THEN Step(i, inj, [To(t, "throw") EXCEPT !.dup = TRUE], tabs, appended)
           ELSE Step(i, inj, [Wrote(t, "init_f4") EXCEPT !.ret = <<"ens_ret">> \o @],
                     AddSheet(tabs, t.sheet),
                     [title \in (DOMAIN appended) \cup {t.sheet} |->
                        IF title = t.sheet THEN <<>> ELSE appended[title]])

\* initializeSheetStructure: F4:H4, RAW; the F5:H5 request that follows takes
\* this.targetExpense as it is now
init_f4 ==
  \E i \in 1..Len(tasks) :
  LET t == tasks[i]
  IN  /\ t.pc = "init_f4"
      /\ \E inj \in Inject :
           IF inj \/ ~Known(t) THEN Step(i, inj, To(t, "throw"), tabs, appended)
           ELSE Step(i, inj, [Wrote(t, "init_f5") EXCEPT !.cap = targetExpense],
                     Written(t, 4, 6, <<<<JsText(sTargetExpense), JsText(sTotalExpenses), JsText(sRemain)>>>>, "RAW"),
                     appended)

\* initializeSheetStructure: F5:H5, USER_ENTERED
init_f5 ==
  \E i \in 1..Len(tasks) :
  LET t == tasks[i]
  IN  /\ t.pc = "init_f5"
      /\ \E inj \in Inject :
           IF inj \/ ~Known(t) THEN Step(i, inj, To(t, "throw"), tabs, appended)
           ELSE Step(i, inj, Wrote(t, "init_cur_fmt"),
                     Written(t, 5, 6, <<<<JsNum(t.cap), JsText(fSum), JsText(fRemain)>>>>, "USER_ENTERED"),
                     appended)

\* initializeSheetStructure, inner try: spreadsheets.get for the tab's id and
\* repeatCell currency format on F5:H5.  The tab is there from the first
\* request on and tabs are never removed, so the two requests are one step.
init_cur_fmt ==
  \E i \in 1..Len(tasks) :
  LET t == tasks[i]
  IN  /\ t.pc = "init_cur_fmt"
      /\ \E inj \in Inject :
           IF inj \/ ~Known(t) THEN Step(i, inj, To(t, "init_a5"), tabs, appended)
           ELSE Step(i, inj, Wrote(t, "init_a5"), AddFormat(tabs, t.sheet, "currency F5:H5"), appended)

\* initializeSheetStructure: A5:D5, RAW; then initializeTypeBreakdown, and
\* applySheetFormatting when that has returned
init_a5 ==
  \E i \in 1..Len(tasks) :
  LET t == tasks[i]
  IN  /\ t.pc = "init_a5"
      /\ \E inj \in Inject :
           IF inj \/ ~Known(t) THEN Step(i, inj, To(t, "throw"), tabs, appended)
           ELSE Step(i, inj, [Wrote(t, "bd_write") EXCEPT !.ret = <<"init_bd">> \o @],
                     Written(t, 5, 1, <<<<JsText(sDate), JsText(sType), JsText(sAmount), JsText(sDescription)>>>>, "RAW"),
                     appended)

\* EXPENSE_TYPES.filter(type => type !== 'None')
typesForBreakdown == SelectSeq(EXPENSE_TYPES, LAMBDA type : type # sNone)

\* typesForBreakdown.map(type => [type, `=SUMIF(B6:B, "${type}", C6:C)`])
breakdownData ==
  [i \in 1..Len(typesForBreakdown) |->
     <<JsText(typesForBreakdown[i]), JsText(SumIfFormula(typesForBreakdown[i]))>>]

\* initializeTypeBreakdown: F14:G24, USER_ENTERED; its outer catch takes every error
bd_write ==
  \E i \in 1..Len(tasks) :
  LET t == tasks[i]
  IN  /\ t.pc = "bd_write"
      /\ \E inj \in Inject :
           IF inj \/ ~Known(t) THEN Step(i, inj, To(t, "ret"), tabs, appended)
           ELSE Step(i, inj, Wrote(t, "bd_fmt"), Written(t, 14, 6, breakdownData, "USER_ENTERED"), appended)

\* initializeTypeBreakdown: spreadsheets.get for the tab's id and repeatCell
\* currency format on G14:G24, in one step
bd_fmt ==
  \E i \in 1..Len(tasks) :
  LET t == tasks[i]
  IN  /\ t.pc = "bd_fmt"
      /\ \E inj \in Inject :
           IF inj \/ ~Known(t) THEN Step(i, inj, To(t, "ret"), tabs, appended)
           ELSE Step(i, inj, Wrote(t, "ret"), AddFormat(tabs, t.sheet, "currency G14:G24"), appended)

\* a formatting step whose catch rethrows
fmt_applyRethrows ==
  \E i \in 1..Len(tasks) :
  LET t == tasks[i]
  IN  /\ t.pc = "fmt_apply"
      /\ \E inj \in Inject :
           IF inj \/ ~Known(t) THEN Step(i, inj, To(t, "throw"), tabs, appended)
           ELSE Step(i, inj, Wrote(t, "ret"), AddFormat(tabs, t.sheet, "colours"), appended)

\* applySheetFormatting: spreadsheets.get for the tab's id and the repeatCell
\* requests for colours and bold, in one step; its catch takes every error
fmt_apply ==
  \E i \in 1..Len(tasks) :
  LET t == tasks[i]
  IN  /\ t.pc = "fmt_apply"
      /\ \E inj \in Inject :
           IF inj \/ ~Known(t) THEN Step(i, inj, To(t, "ret"), tabs, appended)
           ELSE Step(i, inj, Wrote(t, "ret"), AddFormat(tabs, t.sheet, "colours"), appended)

\* logExpense: values.append to A:D, RAW; then updateSummarySection
log_append ==
  \E i \in 1..Len(tasks) :
  LET t == tasks[i]
  IN  /\ t.pc = "log_append"
      /\ \E inj \in Inject :
           IF inj \/ ~Known(t) THEN Step(i, inj, To(t, "throw"), tabs, appended)
           ELSE Step(i, inj,
                     [Wrote(t, "sum_upd") EXCEPT !.ret = <<"log_done">> \o @, !.logged = TRUE],
                     SetCells(tabs, t.sheet, AppendCells(CellsOf(tabs, t.sheet), Rg(1, 1, 0, 4), ExpenseRow(t.e))),
                     [title \in DOMAIN appended |->
                        IF title = t.sheet THEN Append(appended[title], t.e) ELSE appended[title]])

\* an updateSummarySection whose catch rethrows
sum_updRethrows ==
  \E i \in 1..Len(tasks) :
  LET t == tasks[i]
  IN  /\ t.pc = "sum_upd"
      /\ \E inj \in Inject :
           IF inj \/ ~Known(t) THEN Step(i, inj, To(t, "throw"), tabs, appended)
           ELSE Step(i, inj, Wrote(t, "ret"),
                     Written(t, 5, 7, <<<<JsText(fSum), JsText(fRemain)>>>>, "USER_ENTERED"), appended)

\* an updateSummarySection that writes the numbers the formulas would show
sum_updComputed ==
  \E i \in 1..Len(tasks) :
  LET t == tasks[i]
  IN  /\ t.pc = "sum_upd"
      /\ \E inj \in Inject :
           IF inj \/ ~Known(t) THEN Step(i, inj, To(t, "ret"), tabs, appended)
           ELSE Step(i, inj, Wrote(t, "ret"),
                     Written(t, 5, 7, <<<<JsNum(SumAmounts(CellsOf(tabs, t.sheet))), JsText(fRemain)>>>>,
                             "USER_ENTERED"), appended)

\* updateSummarySection: G5:H5, USER_ENTERED; its catch takes every error
sum_upd ==
  \E i \in 1..Len(tasks) :
  LET t == tasks[i]
  IN  /\ t.pc = "sum_upd"
      /\ \E inj \in Inject :
           IF inj \/ ~Known(t) THEN Step(i, inj, To(t, "ret"), tabs, appended)
           ELSE Step(i, inj, Wrote(t, "ret"),
                     Written(t, 5, 7, <<<<JsText(fSum), JsText(fRemain)>>>>, "USER_ENTERED"), appended)

\* a setTargetExpense whose range names no tab: the first tab is written
tgt_f5FirstTab ==
  \E i \in 1..Len(tasks) :
  LET t == tasks[i]
  IN  /\ t.pc = "tgt_f5"
      /\ \E inj \in Inject :
           IF inj \/ ~Known(t) THEN Step(i, inj, To(t, "throw"), tabs, appended)
           ELSE Step(i, inj, [Wrote(t, "sum_upd") EXCEPT !.ret = <<"tgt_done">> \o @],
                     SetCells(tabs, tabs[1].title,
                              UpdateCells(tabs[1].cells, 5, 6, <<<<JsNum(t.tgt)>>>>, "RAW")), appended)

\* setTargetExpense: F5, RAW; then updateSummarySection
tgt_f5 ==
  \E i \in 1..Len(tasks) :
  LET t == tasks[i]
  IN  /\ t.pc = "tgt_f5"
      /\ \E inj \in Inject :
           IF inj \/ ~Known(t) THEN Step(i, inj, To(t, "throw"), tabs, appended)
           ELSE Step(i, inj, [Wrote(t, "sum_upd") EXCEPT !.ret = <<"tgt_done">> \o @],
                     Written(t, 5, 6, <<<<JsNum(t.tgt)>>>>, "RAW"), appended)

\* getAllSheetNames: spreadsheets.get, the titles of the tabs
names_get ==
  \E i \in 1..Len(tasks) :
  LET t == tasks[i]
  IN  /\ t.pc = "names_get"
      /\ \E inj \in Inject :
           Step(i, inj, IF inj THEN To(t, "throw") ELSE [To(t, "ret") EXCEPT !.names = Titles(tabs)],
                tabs, appended)

\* getAllExpenses: values.get of A6:D, mapped to expenses
exp_get ==
  \E i \in 1..Len(tasks) :
  LET t == tasks[i]
  IN  /\ t.pc = "exp_get"
      /\ \E inj \in Inject :
           Step(i, inj,
                IF inj \/ ~Known(t) THEN To(t, "throw")
                ELSE [To(t, "ret") EXCEPT !.rows = MapRows(GetValues(CellsOf(tabs, t.sheet), Rg(6, 1, 0, 4)))],
                tabs, appended)

\* a getExpensesFromSheet whose catch rethrows
all_getRethrows ==
  \E i \in 1..Len(tasks) :
  LET t == tasks[i]
  IN  /\ t.pc = "all_get"
      /\ \E inj \in Inject :
           Step(i, inj,
                IF inj \/ ~HasTab(tabs, Head(t.names)) THEN To(t, "throw")
                ELSE [t EXCEPT !.pc = IF Len(t.names) = 1 THEN "ret" ELSE "all_get",
                               !.names = Tail(t.names),
                               !.rows = @ \o MapRows(GetValues(CellsOf(tabs, Head(t.names)), Rg(6, 1, 0, 4)))],
                tabs, appended)

\* getAllMonthlyExpenses: getExpensesFromSheet for the next monthly tab, whose
\* catch gives no expenses for a tab that cannot be read
all_get ==
  \E i \in 1..Len(tasks) :
  LET t == tasks[i]
  IN  /\ t.pc = "all_get"
      /\ \E inj \in Inject :
           Step(i, inj,
                [t EXCEPT !.pc = IF Len(t.names) = 1 THEN "ret" ELSE "all_get",
                          !.names = Tail(t.names),
                          !.rows = IF inj \/ ~HasTab(tabs, Head(t.names)) THEN @
                                   ELSE @ \o MapRows(GetValues(CellsOf(tabs, Head(t.names)), Rg(6, 1, 0, 4)))],
                tabs, appended)

\* a clear that spares the rows under the header
ClearRangeAboveData == Rg(1, 1, 5, 26)

\* the range `${sheetName}!A:Z`
ClearRange == Rg(1, 1, 0, 26)

\* resetSheetToInitialState: values.clear of A:Z; then initializeSheetStructure;
\* a failure of the clear is caught by the catch of resetSheetToInitialState
rst_clear ==
  \E i \in 1..Len(tasks) :
  LET t == tasks[i]
  IN  /\ t.pc = "rst_clear"
      /\ \E inj \in Inject :
           IF inj \/ ~Known(t)
           THEN Step(i, inj, [To(t, "throw") EXCEPT !.ret = <<"rst_done">> \o @], tabs, appended)
           ELSE Step(i, inj, [Wrote(t, "init_f4") EXCEPT !.ret = <<"rst_done">> \o @],
                     SetCells(tabs, t.sheet, ClearCells(CellsOf(tabs, t.sheet), ClearRange)),
                     [title \in (DOMAIN appended) \cup {t.sheet} |->
                        IF title = t.sheet THEN <<>> ELSE appended[title]])

UpperCase ==
  <<"A", "B", "C", "D", "E", "F", "G", "H", "I", "J", "K", "L", "M",
    "N", "O", "P", "Q", "R", "S", "T", "U", "V", "W", "X", "Y", "Z">>
LowerCase ==
  <<"a", "b", "c", "d", "e", "f", "g", "h", "i", "j", "k", "l", "m",
    "n", "o", "p", "q", "r", "s", "t", "u", "v", "w", "x", "y", "z">>

\* s.toLowerCase()
toLowerCase(s) ==
  [i \in 1..Len(s) |->
     IF \E k \in 1..Len(UpperCase) : UpperCase[k] = s[i]
     THEN LowerCase[CHOOSE k \in 1..Len(UpperCase) : UpperCase[k] = s[i]]
     ELSE s[i]]

\* s.includes(sub)
includes(s, sub) == \E i \in 0..(Len(s) - Len(sub)) : SubSeq(s, i + 1, i + Len(sub)) = sub

\* the labels detectSheetFormat looks for
lDate == <<"d", "a", "t", "e">>
\* a label the header does not carry
lCategory == <<"c", "a", "t", "e", "g", "o", "r", "y">>
lType == <<"t", "y", "p", "e">>
lAmount == <<"a", "m", "o", "u", "n", "t">>
lDescription == <<"d", "e", "s", "c", "r", "i", "p", "t", "i", "o", "n">>

\* a detection that is content with one label
HeadersIncludeAny(values, labels) ==
  /\ values # <<>>
  /\ \E l \in labels : includes(toLowerCase(Join(values[1])), l)

\* detectSheetFormat: values[0].join(' ').toLowerCase() of a range read, when
\* there is a row and it has three values at least, holds every label
HeadersInclude(values, labels) ==
  /\ values # <<>>
  /\ Len(values[1]) >= 3
  /\ \A l \in labels : includes(toLowerCase(Join(values[1])), l)

\* detectSheetFormat: values.get of A5:D5; the catch gives 'unknown' for every error
det_new ==
  \E i \in 1..Len(tasks) :
  LET t == tasks[i]
  IN  /\ t.pc = "det_new"
      /\ \E inj \in Inject :
           Step(i, inj,
                IF inj \/ ~Known(t) THEN [To(t, "ret") EXCEPT !.format = "unknown"]
                ELSE IF HeadersInclude(GetValues(CellsOf(tabs, t.sheet), Rg(5, 1, 5, 4)),
                                       {lDate, lType, lAmount, lDescription})
                THEN [To(t, "ret") EXCEPT !.format = "new"]
                ELSE To(t, "det_old"),
                tabs, appended)

\* detectSheetFormat: values.get of A1:C1
det_old ==
  \E i \in 1..Len(tasks) :
  LET t == tasks[i]
  IN  /\ t.pc = "det_old"
      /\ \E inj \in Inject :
           Step(i, inj,
                IF inj \/ ~Known(t) THEN [To(t, "ret") EXCEPT !.format = "unknown"]
                ELSE IF HeadersInclude(GetValues(CellsOf(tabs, t.sheet), Rg(1, 1, 1, 3)),
                                       {lDate, lAmount, lDescription})
                THEN [To(t, "ret") EXCEPT !.format = "old"]
                ELSE [To(t, "ret") EXCEPT !.format = "unknown"],
                tabs, appended)

\* migrateExistingData: a row is kept when it has a date, an amount that is
\* not 0 and a description
Essential(row) ==
  /\ row # <<>>
  /\ ~FalsyText(At(row, 0))
  /\ ~FalsyNum(parseFloat(At(row, 1)))
  /\ ~FalsyText(At(row, 2))

\* migratedData.push([date, '', amount, description])
MigratedRow(row) == <<JsText(At(row, 0)), JsText(<<>>), JsNum(parseFloat(At(row, 1))), JsText(At(row, 2))>>

migratedData(rows) ==
  LET kept == SelectSeq(rows, Essential)
  IN  [i \in 1..Len(kept) |-> MigratedRow(kept[i])]

\* migrateExistingData: values.get of A2:C; its catch gives no rows
mig_read ==
  \E i \in 1..Len(tasks) :
  LET t == tasks[i]
  IN  /\ t.pc = "mig_read"
      /\ \E inj \in Inject :
           Step(i, inj,
                IF inj \/ ~Known(t) THEN To(t, "mig_clear")
                ELSE [To(t, "mig_clear") EXCEPT
                        !.data = migratedData(GetValues(CellsOf(tabs, t.sheet), Rg(2, 1, 0, 3)))],
                tabs, appended)

\* a clear of everything the old layout holds
MigrateClearAll == Rg(1, 1, 0, 8)

\* the range `${sheetName}!A1:H5`
MigrateClearRange == Rg(1, 1, 5, 8)

\* migrateSheetToNewFormat: values.clear of A1:H5; then initializeSheetStructure
mig_clear ==
  \E i \in 1..Len(tasks) :
  LET t == tasks[i]
  IN  /\ t.pc = "mig_clear"
      /\ \E inj \in Inject :
           IF inj \/ ~Known(t) THEN Step(i, inj, To(t, "throw"), tabs, appended)
           ELSE Step(i, inj, [Wrote(t, "init_f4") EXCEPT !.ret = <<"mig_struct">> \o @],
                     SetCells(tabs, t.sheet, ClearCells(CellsOf(tabs, t.sheet), MigrateClearRange)),
                     appended)

\* migrateSheetToNewFormat: values.update of A6:D(5 + n), RAW; then
\* updateSummarySection
mig_write ==
  \E i \in 1..Len(tasks) :
  LET t == tasks[i]
  IN  /\ t.pc = "mig_write"
      /\ \E inj \in Inject :
           IF inj \/ ~Known(t) THEN Step(i, inj, To(t, "throw"), tabs, appended)
           ELSE Step(i, inj, [Wrote(t, "sum_upd") EXCEPT !.ret = <<"mig_done">> \o @],
                     Written(t, 6, 1, t.data, "RAW"), appended)

\* whether a range read has no values: !values || values.length === 0
NoValues(cells, rg) == GetValues(cells, rg) = <<>>

\* initializeSheet: values.get of A5:D5 of the tab this.sheetName
is_a5 ==
  \E i \in 1..Len(tasks) :
  LET t == tasks[i]
  IN  /\ t.pc = "is_a5"
      /\ \E inj \in Inject :
           Step(i, inj,
                IF inj \/ ~Known(t) THEN To(t, "throw")
                ELSE IF NoValues(CellsOf(tabs, t.sheet), Rg(5, 1, 5, 4)) THEN To(t, "init_f4")
                ELSE To(t, "is_sum"),
                tabs, appended)

\* initializeSheet: values.get of F4:H5
is_sum ==
  \E i \in 1..Len(tasks) :
  LET t == tasks[i]
  IN  /\ t.pc = "is_sum"
      /\ \E inj \in Inject :
           Step(i, inj,
                IF inj \/ ~Known(t) THEN To(t, "throw")
                ELSE IF NoValues(CellsOf(tabs, t.sheet), Rg(4, 6, 5, 8)) THEN To(t, "is_f4")
                ELSE To(t, "is_bd"),
                tabs, appended)

\* initializeSheet: F4:H4, RAW
is_f4 ==
  \E i \in 1..Len(tasks) :
  LET t == tasks[i]
  IN  /\ t.pc = "is_f4"
      /\ \E inj \in Inject :
           IF inj \/ ~Known(t) THEN Step(i, inj, To(t, "throw"), tabs, appended)
           ELSE Step(i, inj, [Wrote(t, "is_f5") EXCEPT !.cap = targetExpense],
                     Written(t, 4, 6, <<<<JsText(sTargetExpense), JsText(sTotalExpenses), JsText(sRemain)>>>>, "RAW"),
                     appended)

\* initializeSheet: F5:H5, USER_ENTERED; then applySheetFormatting
is_f5 ==
  \E i \in 1..Len(tasks) :
  LET t == tasks[i]
  IN  /\ t.pc = "is_f5"
      /\ \E inj \in Inject :
           IF inj \/ ~Known(t) THEN Step(i, inj, To(t, "throw"), tabs, appended)
           ELSE Step(i, inj, [Wrote(t, "fmt_apply") EXCEPT !.ret = <<"is_fmt">> \o @],
                     Written(t, 5, 6, <<<<JsNum(t.cap), JsText(fSum), JsText(fRemain)>>>>, "USER_ENTERED"),
                     appended)

\* initializeSheet: values.get of F14:G14; initializeTypeBreakdown when it is empty
is_bd ==
  \E i \in 1..Len(tasks) :
  LET t == tasks[i]
  IN  /\ t.pc = "is_bd"
      /\ \E inj \in Inject :
           Step(i, inj,
                IF inj \/ ~Known(t) THEN To(t, "throw")
                ELSE IF NoValues(CellsOf(tabs, t.sheet), Rg(14, 6, 14, 7)) THEN To(t, "bd_write")
                ELSE To(t, "ret"),
                tabs, appended)

\* the requests of detectSheetFormat, migrateSheetToNewFormat, initializeSheet
\* and setTargetExpense
Layout ==
  \/ det_new \/ det_old
  \/ mig_read \/ mig_clear \/ mig_write
  \/ is_a5 \/ is_sum \/ is_f4 \/ is_f5 \/ is_bd
  \/ tgt_f5

\* a backend request of some task is answered
Backend ==
  \/ ens_get \/ ens_add
  \/ init_f4 \/ init_f5 \/ init_cur_fmt \/ init_a5
  \/ bd_write \/ bd_fmt \/ fmt_apply
  \/ log_append \/ sum_upd
  \/ names_get \/ exp_get \/ rst_clear

-----------------------------------------------------------------------------
\* The service called by one caller, one call after the other.

MaxCalls == 3

Quiescent == \A i \in 1..Len(tasks) : tasks[i].pc = "done"

\* the cells initializeSheetStructure leaves on a tab when every request succeeds
StructureCells(cells, target) ==
  LET f4 == UpdateCells(cells, 4, 6, <<<<JsText(sTargetExpense), JsText(sTotalExpenses), JsText(sRemain)>>>>, "RAW")
      f5 == UpdateCells(f4, 5, 6, <<<<JsNum(target), JsText(fSum), JsText(fRemain)>>>>, "USER_ENTERED")
      a5 == UpdateCells(f5, 5, 1, <<<<JsText(sDate), JsText(sType), JsText(sAmount), JsText(sDescription)>>>>, "RAW")
  IN  UpdateCells(a5, 14, 6, breakdownData, "USER_ENTERED")

\* a tab as the earlier version of the service left it: Date, Amount,
\* Description in row 1 and the rows under it
LegacyCells(rows) ==
  UpdateCells(NoCells, 1, 1,
              <<<<JsText(sDate), JsText(sAmount), JsText(sDescription)>>>> \o rows, "RAW")

Targets == {Num(150000), Num(7)}

Expenses(t) ==
  {[date |-> toISODate(t), type |-> type, amount |-> amount, description |-> description,
    username |-> Undefined] :
     <<type, amount, description>> \in
       {<<Undefined, Num(5), <<>>>>, <<sFuel, Normalise(25, 1), <<"x">>>>, <<sFuel, Num(5), <<>>>>}}

SheetNames == {sJan2026, sFeb2026}

Tab(title, cells) == [title |-> title, cells |-> cells, fmt |-> {}]

\* the documents the service can find: no tab for the month, an empty one, one
\* in the old layout, one in the new layout holding a row
Documents ==
  {<<>>,
   <<Tab(sJan2026, NoCells)>>,
   <<Tab(sJan2026, LegacyCells(<<<<JsText(s20260131), JsNum(Num(5)), JsText(<<"x">>)>>>>))>>,
   <<Tab(sJan2026, AppendCells(StructureCells(NoCells, Num(0)), Rg(1, 1, 0, 4),
                               <<JsText(s20260131), JsText(sFuel), JsNum(Num(7)), JsText(<<>>)>>))>>}

InitSvc ==
  /\ now = 0
  /\ msg = NoMessage
  /\ parsed = NotParsed
  /\ adminUserId = 0
  /\ approvedUsers = <<>>
  /\ savedUsers = <<>>
  /\ event = NoEvent
  /\ reply = ""
  /\ pendingExpenses = NoPending
  /\ keyboards = {}
  /\ tabs \in Documents
  /\ targetExpense = Num(0)
  /\ tasks = <<>>
  /\ faults = 0
  /\ appended = [title \in {} |-> <<>>]

\* a call starts: the code up to its first request
Start(t, target) ==
  /\ Len(tasks) < MaxCalls
  /\ tasks' = Append(tasks, t)
  /\ targetExpense' = target
  /\ UNCHANGED <<now, parseVars, botVars, tabs, faults, appended>>

CallEnsure ==
  /\ Quiescent
  /\ \E name \in SheetNames :
       Start([NewTask("ensure", "ens_get", <<"end">>) EXCEPT !.sheet = name], targetExpense)

CallLogExpense ==
  /\ Quiescent
  /\ \E e \in Expenses(now) :
       Start([NewTask("log", "ens_get", <<"log_row", "end">>) EXCEPT
                !.sheet = getMonthlySheetName(now), !.e = e], targetExpense)

CallGetTotalExpenses ==
  /\ Quiescent
  /\ Start([NewTask("total", "names_get", <<"exp_names", "tot_sum", "end">>) EXCEPT
              !.sheet = getMonthlySheetName(now)], targetExpense)

CallGetTotalAllExpenses ==
  /\ Quiescent
  /\ Start(NewTask("total_all", "names_get", <<"all_names", "tot_sum", "end">>), targetExpense)

\* getExpensesFromSheet(sheetName), summed as getTotalAllExpenses sums it
CallGetExpensesFromSheet ==
  /\ Quiescent
  /\ \E name \in SheetNames :
       Start([NewTask("sheet_rows", "all_get", <<"tot_sum", "end">>) EXCEPT
                !.sheet = name, !.names = <<name>>], targetExpense)

CallReset ==
  /\ Quiescent
  /\ \E name \in SheetNames, target \in Targets :
       Start([NewTask("reset", "names_get", <<"rst_names", "end">>) EXCEPT
                !.sheet = name, !.tgt = target, !.orig = targetExpense], target)

\* between two calls time may pass
TickIdle == Quiescent /\ Tick

NextSvc ==
  \/ CallEnsure \/ CallLogExpense \/ CallGetTotalExpenses \/ CallGetTotalAllExpenses \/ CallReset
  \/ CallGetExpensesFromSheet
  \/ Backend \/ all_get
  \/ TickIdle

SpecSvc == InitSvc /\ [][NextSvc]_vars

-----------------------------------------------------------------------------
\* The service with a backend that fails requests: up to MaxFaults requests
\* of a run are failed, in calls that follow one another.

MaxFaults == 3
MaxFaultCalls == 2

InitFault ==
  /\ now = 0
  /\ msg = NoMessage
  /\ parsed = NotParsed
  /\ adminUserId = 0
  /\ approvedUsers = <<>>
  /\ savedUsers = <<>>
  /\ event = NoEvent
  /\ reply = ""
  /\ pendingExpenses = NoPending
  /\ keyboards = {}
  /\ tabs \in Documents
  /\ targetExpense = Num(0)
  /\ tasks = <<>>
  /\ faults \in 1..MaxFaults
  /\ appended = [title \in {} |-> <<>>]

NextFault ==
  \/ Len(tasks) < MaxFaultCalls /\ (CallEnsure \/ CallLogExpense \/ CallGetTotalExpenses \/ CallReset)
  \/ Len(tasks) < MaxFaultCalls /\ CallGetTotalAllExpenses
  \/ Backend \/ all_get

SpecFault == InitFault /\ [][NextFault]_vars

-----------------------------------------------------------------------------
\* Detection of the layout and migration of a tab, called one after the
\* other, with a backend that may fail one request of the run.

MaxMigrateCalls == 2
MaxMigrateFaults == 1

\* a row of the old layout: date, amount, description
OldRow(amount, description) == <<JsText(s20260131), JsNum(amount), JsText(description)>>

\* five rows of the old layout that lack a description or an amount, under
\* the rows given
OldRowsWithFiveUnusable(rows) ==
  rows \o <<<<JsText(s20260131), JsNum(Num(5))>>, OldRow(Num(0), <<"x">>),
            <<JsText(s20260131), JsNum(Num(7))>>, <<JsText(s20260131), JsNum(Num(5))>>,
            <<JsText(s20260131), JsNum(Num(7))>>>>

\* six rows of the old layout, all with date, amount and description
SixOldRows ==
  <<OldRow(Num(5), <<"x">>), OldRow(Num(7), <<"y">>), OldRow(Normalise(25, 1), <<"x">>),
    OldRow(Num(7), <<"x">>), OldRow(Num(5), <<"y">>), OldRow(Num(5), <<"x">>)>>

\* the header labels in capitals
CapitalHeaderCells ==
  UpdateCells(NoCells, 5, 1,
              <<<<JsText(<<"D", "A", "T", "E">>), JsText(<<"T", "Y", "P", "E">>),
                  JsText(<<"A", "M", "O", "U", "N", "T">>),
                  JsText(<<"D", "E", "S", "C", "R", "I", "P", "T", "I", "O", "N">>)>>>>, "RAW")

\* the labels of the old layout written in row 5
OldLabelsInRowFive ==
  UpdateCells(NoCells, 5, 1, <<<<JsText(sDate), JsText(sAmount), JsText(sDescription)>>>>, "RAW")

\* the tabs migration and detection can find
MigrateDocuments ==
  Documents \cup
  {<<Tab(sJan2026, LegacyCells(<<>>))>>,
   <<Tab(sJan2026, LegacyCells(<<OldRow(Num(5), <<"x">>), <<JsText(s20260131), JsNum(Num(7))>>,
                                  OldRow(Num(7), <<"y">>)>>))>>,
   <<Tab(sJan2026, LegacyCells(SixOldRows))>>,
   <<Tab(sJan2026, LegacyCells(OldRowsWithFiveUnusable(<<>>)))>>,
   <<Tab(sJan2026, LegacyCells(OldRowsWithFiveUnusable(<<OldRow(Num(5), <<"x">>)>>)))>>,
   <<Tab(sJan2026, CapitalHeaderCells)>>,
   <<Tab(sJan2026, OldLabelsInRowFive)>>,
   <<Tab(sJan2026, UpdateCells(LegacyCells(<<>>), 5, 1,
                               <<<<JsText(sDate), JsText(sType), JsText(sAmount), JsText(sDescription)>>>>, "RAW"))>>,
   <<Tab(sJan2026, UpdateCells(NoCells, 1, 1, <<<<JsText(<<"x">>), JsNum(Num(5))>>>>, "RAW"))>>}

InitMigrate ==
  /\ now = 0
  /\ msg = NoMessage
  /\ parsed = NotParsed
  /\ adminUserId = 0
  /\ approvedUsers = <<>>
  /\ savedUsers = <<>>
  /\ event = NoEvent
  /\ reply = ""
  /\ pendingExpenses = NoPending
  /\ keyboards = {}
  /\ tabs \in MigrateDocuments
  /\ targetExpense \in Targets
  /\ tasks = <<>>
  /\ faults \in 0..MaxMigrateFaults
  /\ appended = [title \in {} |-> <<>>]

\* detectSheetFormat(sheetName)
CallDetectSheetFormat ==
  /\ Quiescent
  /\ Start([NewTask("detect", "det_new", <<"end">>) EXCEPT !.sheet = sJan2026], targetExpense)

\* migrateSheetToNewFormat(sheetName, hasExistingData)
CallMigrate ==
  /\ Quiescent
  /\ \E hasExistingData \in BOOLEAN :
       Start([NewTask("migrate", "names_get", <<"mig_names", "mig_end", "end">>) EXCEPT
                !.sheet = sJan2026, !.keep = hasExistingData], targetExpense)

NextMigrate ==
  \/ Len(tasks) < MaxMigrateCalls /\ (CallDetectSheetFormat \/ CallMigrate)
  \/ names_get \/ ens_get \/ ens_add
  \/ init_f4 \/ init_f5 \/ init_cur_fmt \/ init_a5 \/ bd_write \/ bd_fmt \/ fmt_apply
  \/ det_new \/ det_old \/ mig_read \/ mig_clear \/ mig_write \/ sum_upd

SpecMigrate == InitMigrate /\ [][NextMigrate]_vars

-----------------------------------------------------------------------------
\* The whole service, with the repair of the configured tab at startup and
\* setTargetExpense, called one after the other; this.sheetName is the tab of
\* January.

MaxLayoutCalls == 3

\* a tab of the new layout with target 7 and one row
FullCells ==
  AppendCells(StructureCells(NoCells, Num(7)), Rg(1, 1, 0, 4),
              <<JsText(s20260131), JsText(sFuel), JsNum(Num(5)), JsText(<<"x">>)>>)

\* the regions of the layout: summary, header of the rows, breakdown
SummaryRegion == Rg(4, 6, 5, 8)
HeaderRegion == Rg(5, 1, 5, 4)
BreakdownRegion == Rg(14, 6, 13 + Len(typesForBreakdown), 7)

LayoutDocuments ==
  Documents \cup
  {<<Tab(sJan2026, FullCells)>>,
   <<Tab(sJan2026, ClearCells(FullCells, SummaryRegion))>>,
   <<Tab(sJan2026, ClearCells(FullCells, HeaderRegion))>>,
   <<Tab(sJan2026, ClearCells(FullCells, BreakdownRegion))>>}

InitLayout ==
  /\ now = 0
  /\ msg = NoMessage
  /\ parsed = NotParsed
  /\ adminUserId = 0
  /\ approvedUsers = <<>>
  /\ savedUsers = <<>>
  /\ event = NoEvent
  /\ reply = ""
  /\ pendingExpenses = NoPending
  /\ keyboards = {}
  /\ tabs \in LayoutDocuments
  /\ targetExpense = Num(150000)
  /\ tasks = <<>>
  /\ faults = 0
  /\ appended = [title \in {} |-> <<>>]

\* initializeSheet()
CallInitializeSheet ==
  /\ Quiescent
  /\ Start([NewTask("startup", "is_a5", <<"end">>) EXCEPT !.sheet = sJan2026], targetExpense)

\* setTargetExpense(sheetName, targetExpense): this.targetExpense is set
\* before the first request
CallSetTargetExpense ==
  /\ Quiescent
  /\ \E name \in SheetNames, target \in Targets :
       Start([NewTask("target", "tgt_f5", <<"end">>) EXCEPT !.sheet = name, !.tgt = target], target)

NextLayout ==
  \/ Len(tasks) < MaxLayoutCalls /\ (CallInitializeSheet \/ CallSetTargetExpense \/ CallMigrate)
  \/ Len(tasks) < MaxLayoutCalls /\ (CallEnsure \/ CallLogExpense \/ CallGetTotalExpenses \/ CallReset)
  \/ Backend \/ Layout

SpecLayout == InitLayout /\ [][NextLayout]_vars

-----------------------------------------------------------------------------
\* Properties of the service under sequential calls

\* what getAllExpenses reads from a tab
ReadExpenses(ts, sheetName) ==
  IF HasTab(ts, sheetName)
  THEN MapRows(GetValues(CellsOf(ts, sheetName), Rg(6, 1, 0, 4)))
  ELSE <<>>

\* what getTotalExpenses computes from a tab
TotalFor(ts, sheetName) == SumExpenses(ReadExpenses(ts, sheetName))

\* an expense as a row reads back: date, type, amount, description
Record(e) == [date |-> e.date, type |-> e.type, amount |-> e.amount, description |-> e.description]

Records(es) == [i \in 1..Len(es) |-> Record(es[i])]

\* a tab in the new layout: the four header labels in A5:D5
NewFormat(ts, sheetName) ==
  /\ HasTab(ts, sheetName)
  /\ GetValues(CellsOf(ts, sheetName), Rg(5, 1, 5, 4)) = <<<<sDate, sType, sAmount, sDescription>>>>

\* task i is a call of ensureMonthlySheetExists made after an earlier such
\* call for the same name has returned without error
EnsuredBefore(i) ==
  /\ tasks[i].op = "ensure"
  /\ \E j \in 1..(i - 1) :
       /\ tasks[j].op = "ensure"
       /\ tasks[j].sheet = tasks[i].sheet
       /\ tasks[j].res = "ok"

\* the requests that change the document, over a full creation
CreationRequests ==
  {"addSheet", "F4:H4", "F5:H5", "format F5", "A5:D5", "F14:G24", "format G14:G24", "format sheet"}
CreationWrites == Cardinality(CreationRequests)

\* C1: ensureMonthlySheetExists called a second time for the same name makes
\* no addSheet and no write, at no step changes the document, and returns
\* without error; there is one tab of that name, and the first call, when it
\* created the tab, wrote its structure once.
C1_SecondEnsureIsNoOp ==
  /\ [](\A i \in 1..Len(tasks) :
          EnsuredBefore(i) =>
            /\ tasks[i].writes = 0
            /\ tasks[i].pc = "done" => tasks[i].res = "ok"
            /\ Cardinality({k \in 1..Len(tabs) : tabs[k].title = tasks[i].sheet}) = 1)
  /\ [](\A j \in 1..Len(tasks) :
          tasks[j].op = "ensure" /\ tasks[j].pc = "done" /\ tasks[j].res = "ok"
            => tasks[j].writes \in {0, CreationWrites})
  /\ [][\A i \in 1..Len(tasks) :
          EnsuredBefore(i) /\ tasks[i].pc # "done" => tabs' = tabs]_vars

\* the second of two calls in a row has returned, the first having created the tab
C1_Witness ==
  /\ Len(tasks) >= 2
  /\ EnsuredBefore(2)
  /\ tasks[1].writes = CreationWrites
  /\ tasks[1].op = "ensure"
  /\ tasks[2].pc = "done"
  /\ tasks[2].res = "ok"

\* C3: once a tab was created or reset by the service and the expenses
\* e1..en were appended to it since, with every call returned, reading the tab
\* gives n records in the order of the appends, the i-th equal to ei in date,
\* type, amount and description (no type reads back as undefined, no
\* description as the empty text); and a getAllExpenses call made then
\* returns those records.
C3_ReadReturnsAppended ==
  Quiescent =>
    /\ \A title \in DOMAIN appended :
         ReadExpenses(tabs, title) = Records(appended[title])
    /\ Len(tasks) > 0 /\ tasks[Len(tasks)].op = "total"
         /\ tasks[Len(tasks)].sheet \in DOMAIN appended
         => /\ tasks[Len(tasks)].res = "ok"
            /\ tasks[Len(tasks)].rows = Records(appended[tasks[Len(tasks)].sheet])

\* two expenses, the first with no type and no description, were appended to
\* a tab the service created, and then read
C3_Witness ==
  /\ Quiescent
  /\ Len(tasks) = 3
  /\ tasks[3].op = "total"
  /\ tasks[3].sheet \in DOMAIN appended
  /\ Len(tasks[3].rows) = 2
  /\ tasks[3].rows[1].type = Undefined
  /\ tasks[3].rows[1].description = <<>>
  /\ tasks[3].rows[2].type = sFuel

\* C5: when resetSheetToInitialState(name, T) has returned success (and no
\* other call was made since), the tab exists in the new layout, reading it
\* gives no expenses, and F5 holds the number T.
C5_ResetLeavesEmptyNewFormat ==
  \A i \in 1..Len(tasks) :
    i = Len(tasks) /\ tasks[i].op = "reset" /\ tasks[i].pc = "done" /\ tasks[i].res = "ok"
      => /\ NewFormat(tabs, tasks[i].sheet)
         /\ ReadExpenses(tabs, tasks[i].sheet) = <<>>
         /\ <<5, 6>> \in DOMAIN CellsOf(tabs, tasks[i].sheet)
         /\ CellsOf(tabs, tasks[i].sheet)[<<5, 6>>] = NumCell(tasks[i].tgt)

\* a reset of a tab that held rows has returned success
C5_Witness ==
  /\ Len(tasks) = 2
  /\ tasks[1].op = "log"
  /\ tasks[1].logged
  /\ tasks[2].op = "reset"
  /\ tasks[2].sheet = tasks[1].sheet
  /\ tasks[2].pc = "done"
  /\ tasks[2].res = "ok"

\* the years written with four digits
FourDigitYears == 1000..9999

\* every name getMonthlySheetName forms for a date of a four-digit year passes
\* the filter of getAllMonthlyExpenses
NamesMatchFilter ==
  \A year \in FourDigitYears, month \in 0..11 : monthlySheetPattern(MonthlyName(year, month))

\* the expenses of the calls before the last one, in the order of the calls
LoggedBeforeLast == [j \in 1..(Len(tasks) - 1) |-> tasks[j].e]

\* every call before the last was a logExpense that returned success, on tabs
\* the service created
OnlyLoggedBeforeLast ==
  /\ \A j \in 1..(Len(tasks) - 1) : tasks[j].op = "log" /\ tasks[j].res = "ok"
  /\ \A k \in 1..Len(tabs) : tabs[k].title \in DOMAIN appended

\* C15: the monthly tab name is formed from the year and the month only, and
\* for every date of a four-digit year it matches the pattern by which
\* getAllMonthlyExpenses picks the monthly tabs; so after successful
\* logExpense calls, with no reset, getTotalAllExpenses returns the sum of all
\* the amounts logged, whatever months they fell in.
C15_TotalAllSumsEveryMonthlyTab ==
  /\ NamesMatchFilter
  /\ Quiescent /\ Len(tasks) > 0 /\ tasks[Len(tasks)].op = "total_all" /\ OnlyLoggedBeforeLast
       => /\ tasks[Len(tasks)].res = "ok"
          /\ tasks[Len(tasks)].total = SumExpenses(LoggedBeforeLast)

\* one expense was logged in January and one in February, and then the total
\* over all months was taken
C15_Witness ==
  /\ Quiescent
  /\ Len(tasks) = 3
  /\ tasks[3].op = "total_all"
  /\ OnlyLoggedBeforeLast
  /\ tasks[1].sheet = MonthlyName(2026, 0)
  /\ tasks[2].sheet = MonthlyName(2026, 1)
  /\ tasks[3].total = Add(tasks[1].e.amount, tasks[2].e.amount)
  /\ tasks[3].total # tasks[2].e.amount

\* the calls that read the expenses of the tab t.sheet
ReadOps == {"total", "sheet_rows"}

\* C21: getAllExpenses for a month without a tab, and getExpensesFromSheet
\* for a name without a tab, return no expenses and no error, and no step of
\* a read changes the document (no tab is created); the total of such a
\* month is 0.
C21_ReadOfMissingTabIsEmpty ==
  /\ [](\A i \in 1..Len(tasks) :
          (/\ i = Len(tasks)
           /\ tasks[i].pc = "done"
           /\ tasks[i].op \in ReadOps
           /\ ~HasTab(tabs, tasks[i].sheet))
            => /\ tasks[i].res = "ok"
               /\ tasks[i].rows = <<>>
               /\ tasks[i].total = Num(0))
  /\ [][\A i \in 1..Len(tasks) :
          (tasks[i].op \in ReadOps /\ tasks[i].pc # "done") => tabs' = tabs]_vars

\* both reads were made for February while the document held January only
C21_Witness ==
  /\ Len(tasks) = 3
  /\ Quiescent
  /\ tasks[1].op = "log"
  /\ tasks[1].logged
  /\ tasks[2].op = "total"
  /\ tasks[3].op = "sheet_rows"
  /\ tasks[2].sheet = tasks[3].sheet
  /\ tasks[2].sheet # tasks[1].sheet
  /\ ~HasTab(tabs, tasks[3].sheet)
  /\ tasks[2].total = Num(0)
  /\ tasks[3].total = Num(0)

\* C22: a backend failure on a step of the total over all months fails the
\* call: when the rows of a monthly tab cannot be read, getTotalAllExpenses
\* does not return a total.
C22_ReadFailureFailsTotalAll ==
  \A i \in 1..Len(tasks) :
    (tasks[i].op = "total_all" /\ tasks[i].pc = "done" /\ tasks[i].failed # {})
      => tasks[i].res # "ok"

\* the requests of initializeSheetStructure that write values
ValueRequests == {"init_f4", "init_f5", "init_a5", "bd_write"}

\* its requests that only format cells
FormatRequests == {"init_cur_fmt", "bd_fmt", "fmt_apply"}

\* C18: when the backend fails a value write of initializeSheetStructure (the
\* summary labels F4:H4, the summary values F5:H5, the header labels A5:D5 or
\* the breakdown labels and formulas F14:G24), the initialization does not
\* report success: the call that ran it ends with an error or a failure.
C18_EveryValueWriteFailureIsFatal ==
  \A i \in 1..Len(tasks) :
    (tasks[i].pc = "done" /\ tasks[i].failed \cap ValueRequests # {})
      => tasks[i].res # "ok"

C20_AppendFatalSummaryAbsorbed ==
  /\ [](\A i \in 1..Len(tasks) :
          (tasks[i].op = "log" /\ tasks[i].pc = "done" /\ "log_append" \in tasks[i].failed)
            => tasks[i].res = "error" /\ ~tasks[i].logged)
  /\ [][\A i \in 1..Len(tasks) :
          (tasks[i].op = "log" /\ tasks[i].pc = "sum_upd" /\ "sum_upd" \in tasks'[i].failed)
            => /\ tasks[i].logged
               /\ tasks'[i].logged
               /\ tasks'[i].pc = "done"
               /\ tasks'[i].res = "ok"
               /\ tabs' = tabs]_vars

\* a logExpense whose row was appended and whose summary request failed has
\* returned success, and the row is read back
C20_Witness ==
  \E i \in 1..Len(tasks) :
    /\ i = Len(tasks)
    /\ tasks[i].op = "log"
    /\ tasks[i].pc = "done"
    /\ tasks[i].failed = {"sum_upd"}
    /\ tasks[i].res = "ok"
    /\ tasks[i].sheet \in DOMAIN appended
    /\ ReadExpenses(tabs, tasks[i].sheet) = <<Record(tasks[i].e)>>

\* the cell at row r, column c reads as the label, whatever the case
HoldsLabel(cells, r, c, label) ==
  /\ <<r, c>> \in DOMAIN cells
  /\ toLowerCase(Display(cells, <<r, c>>)) = label

\* the format a tab has by its header labels: new by row 5, old by row 1
FormatByLabels(ts, sheetName) ==
  IF ~HasTab(ts, sheetName) THEN "unknown"
  ELSE LET cells == CellsOf(ts, sheetName)
       IN  IF /\ HoldsLabel(cells, 5, 1, lDate) /\ HoldsLabel(cells, 5, 2, lType)
              /\ HoldsLabel(cells, 5, 3, lAmount) /\ HoldsLabel(cells, 5, 4, lDescription)
           THEN "new"
           ELSE IF /\ HoldsLabel(cells, 1, 1, lDate) /\ HoldsLabel(cells, 1, 2, lAmount)
                   /\ HoldsLabel(cells, 1, 3, lDescription)
           THEN "old"
           ELSE "unknown"

\* C23: detectSheetFormat never throws; it gives 'unknown' for a missing
\* tab, for a tab whose read fails, for an empty tab and for a tab with
\* neither header; 'new' when A5:D5 hold the labels date, type, amount and
\* description in any case; 'old' only when that is not so and A1:C1 hold
\* date, amount and description.
C23_DetectNeverThrows ==
  \A i \in 1..Len(tasks) :
    (tasks[i].op = "detect" /\ tasks[i].pc = "done")
      => /\ tasks[i].res = "ok"
         /\ tasks[i].writes = 0
         /\ tasks[i].failed # {} => tasks[i].format = "unknown"
         /\ (tasks[i].failed = {} /\ i = Len(tasks))
              => tasks[i].format = FormatByLabels(tabs, tasks[i].sheet)

\* a tab with the old labels in row 5 and nothing in row 1 was detected as unknown
C23_Witness ==
  /\ Len(tasks) = 1
  /\ tasks[1].op = "detect"
  /\ tasks[1].pc = "done"
  /\ tasks[1].failed = {}
  /\ tabs = <<Tab(sJan2026, OldLabelsInRowFive)>>
  /\ tasks[1].format = "unknown"

\* the second of two calls of migrateSheetToNewFormat, the first having
\* returned success, both without a failed request
MigratedBefore(j) ==
  /\ j > 1
  /\ tasks[j].op = "migrate"
  /\ tasks[j - 1].op = "migrate"
  /\ tasks[j - 1].res = "ok"
  /\ tasks[j - 1].failed = {}
  /\ tasks[j].failed = {}

\* C24: migrateSheetToNewFormat on a tab it detects as new sends no write
\* and no clear, changes no cell, and reports success with 0 rows migrated;
\* a call that follows a successful migration finds the tab new.
C24_MigrateIsIdempotent ==
  /\ [](\A i \in 1..Len(tasks) :
          (tasks[i].op = "migrate" /\ tasks[i].pc = "done" /\ tasks[i].format = "new")
            => /\ tasks[i].res = "ok"
               /\ tasks[i].writes = 0
               /\ tasks[i].data = <<>>)
  /\ [](\A j \in 1..Len(tasks) :
          (MigratedBefore(j) /\ tasks[j].pc = "done") => tasks[j].format = "new")
  /\ [][\A j \in 1..Len(tasks) :
          (MigratedBefore(j) /\ tasks[j].pc # "done") => tabs' = tabs]_vars

\* a tab of the old layout with rows was migrated, and then migrated again
C24_Witness ==
  /\ Len(tasks) = 2
  /\ MigratedBefore(2)
  /\ tasks[1].format = "old"
  /\ Len(tasks[1].data) = 6
  /\ tasks[2].pc = "done"
  /\ tasks[2].res = "ok"

\* the expense read back from a migrated row
MigratedRecord(row) ==
  [date |-> row[1].s, type |-> Undefined, amount |-> row[3].n, description |-> row[4].s]

\* C25: after a successful migrateSheetToNewFormat(name, true) of a tab of
\* the old layout, getAllExpenses reads exactly the rows that were kept (the
\* rows with a date, an amount other than 0 and a description, in their
\* order, with no type), as many as the call reports, and no row of the old
\* layout is left from row 6 on.
C25_MigrationKeepsExactlySalvagedRows ==
  \A i \in 1..Len(tasks) :
    (/\ i = Len(tasks)
     /\ tasks[i].op = "migrate"
     /\ tasks[i].pc = "done"
     /\ tasks[i].res = "ok"
     /\ tasks[i].failed = {}
     /\ tasks[i].format = "old"
     /\ tasks[i].keep)
      => ReadExpenses(tabs, tasks[i].sheet) =
           [k \in 1..Len(tasks[i].data) |-> MigratedRecord(tasks[i].data[k])]

\* the cells of a region that the full structure fills
RegionCells(rg) == {rc \in DOMAIN StructureCells(NoCells, Num(0)) : InRange(rc, rg)}

Absent(cells, rg) == \A rc \in RegionCells(rg) : rc \notin DOMAIN cells
Present(cells, rg) == \A rc \in RegionCells(rg) : rc \in DOMAIN cells

\* one of the three regions is absent and the other two are there
ExactlyOneAbsent(cells) ==
  \E rg \in {SummaryRegion, HeaderRegion, BreakdownRegion} :
    /\ Absent(cells, rg)
    /\ \A other \in {SummaryRegion, HeaderRegion, BreakdownRegion} \ {rg} : Present(cells, other)

\* every cell that held a value holds the same value after the step
CellsKept(before, after) == \A rc \in DOMAIN before : rc \in DOMAIN after /\ after[rc] = before[rc]

\* C26: while initializeSheet repairs a tab of which exactly one region
\* (summary, header, breakdown) is absent, no step changes a cell of the two
\* other regions, the target in F5 included, or of a data row.
C26_RepairTouchesOnlyMissingRegion ==
  [][\A i \in 1..Len(tasks) :
       (/\ tasks[i].op = "startup"
        /\ tasks[i].pc # "done"
        /\ HasTab(tabs, tasks[i].sheet)
        /\ ExactlyOneAbsent(CellsOf(tabs, tasks[i].sheet)))
         => CellsKept(CellsOf(tabs, tasks[i].sheet), CellsOf(tabs', tasks[i].sheet))]_vars

\* the tab was initialized by the service: created or reset by it, or
\* migrated from another layout
InitializedByService(title) ==
  \/ title \in DOMAIN appended
  \/ \E j \in 1..Len(tasks) :
       /\ tasks[j].op = "migrate"
       /\ tasks[j].sheet = title
       /\ tasks[j].pc = "done"
       /\ tasks[j].res = "ok"
       /\ tasks[j].format \in {"old", "unknown"}

\* the cells of column G that carry the breakdown
BreakdownFormulaCells == {<<13 + k, 7>> : k \in 1..Len(typesForBreakdown)}

\* G5, H5 and the breakdown hold their formulas and F5 a number
FormulasLive(cells) ==
  /\ {<<5, 6>>, <<5, 7>>, <<5, 8>>} \cup BreakdownFormulaCells \subseteq DOMAIN cells
  /\ cells[<<5, 6>>].k = "num"
  /\ cells[<<5, 7>>] = FormulaCell(fSum)
  /\ cells[<<5, 8>>] = FormulaCell(fRemain)
  /\ \A k \in 1..Len(typesForBreakdown) :
       cells[<<13 + k, 7>>] = FormulaCell(SumIfFormula(typesForBreakdown[k]))

\* C27: after any sequence of successful calls of ensureMonthlySheetExists,
\* logExpense, setTargetExpense, resetSheetToInitialState and
\* migrateSheetToNewFormat, every tab the service initialized has the sum
\* formula in G5, F5 minus G5 in H5, a SUMIF formula over rows 6 on in every
\* breakdown cell of column G and a number in F5; and no step of any call
\* puts anything but a formula into G5, H5 or a breakdown cell.
C27_SummaryCellsHoldFormulas ==
  /\ [](Quiescent /\ (\A j \in 1..Len(tasks) : tasks[j].res = "ok")
          => \A k \in 1..Len(tabs) :
               InitializedByService(tabs[k].title) => FormulasLive(tabs[k].cells))
  /\ [][\A k \in 1..Len(tabs) : \A rc \in {<<5, 7>>, <<5, 8>>} \cup BreakdownFormulaCells :
          (rc \in DOMAIN tabs'[k].cells /\ tabs'[k].title = tabs[k].title)
            => \/ tabs'[k].cells[rc].k = "formula"
               \/ rc \in DOMAIN tabs[k].cells /\ tabs'[k].cells[rc] = tabs[k].cells[rc]]_vars

\* a tab of the old layout was migrated, an expense logged and the target set
C27_Witness ==
  /\ Len(tasks) = 3
  /\ Quiescent
  /\ \A j \in 1..3 : tasks[j].res = "ok"
  /\ tasks[1].op = "migrate"
  /\ tasks[1].format = "old"
  /\ tasks[2].op = "log"
  /\ tasks[3].op = "target"
  /\ tasks[3].sheet = tasks[1].sheet
  /\ InitializedByService(tasks[1].sheet)
  /\ CellsOf(tabs, tasks[1].sheet)[<<5, 6>>] = NumCell(tasks[3].tgt)

\* the cells setTargetExpense writes
TargetCells == {<<5, 6>>, <<5, 7>>, <<5, 8>>}

\* C28: setTargetExpense(name, amount) on an initialized tab puts amount into
\* F5 and the formulas into G5 and H5 and changes no other cell and no other
\* tab, so getAllExpenses and the total read the same before and after.
C28_SetTargetChangesOnlySummary ==
  /\ [][\A i \in 1..Len(tasks) :
          (/\ tasks[i].op = "target"
           /\ tasks[i].pc # "done"
           /\ HasTab(tabs, tasks[i].sheet)
           /\ FormulasLive(CellsOf(tabs, tasks[i].sheet)))
            => /\ Len(tabs') = Len(tabs)
               /\ \A k \in 1..Len(tabs) :
                    tabs[k].title # tasks[i].sheet => tabs'[k] = tabs[k]
               /\ DOMAIN CellsOf(tabs', tasks[i].sheet) = DOMAIN CellsOf(tabs, tasks[i].sheet)
               /\ \A rc \in DOMAIN CellsOf(tabs, tasks[i].sheet) \ TargetCells :
                    CellsOf(tabs', tasks[i].sheet)[rc] = CellsOf(tabs, tasks[i].sheet)[rc]
               /\ ReadExpenses(tabs', tasks[i].sheet) = ReadExpenses(tabs, tasks[i].sheet)
               /\ TotalFor(tabs', tasks[i].sheet) = TotalFor(tabs, tasks[i].sheet)
               /\ tasks'[i].pc = "done"
                    => /\ tasks'[i].res = "ok"
                       /\ CellsOf(tabs', tasks[i].sheet)[<<5, 6>>] = NumCell(tasks[i].tgt)
                       /\ FormulasLive(CellsOf(tabs', tasks[i].sheet))]_vars

\* the target of a tab holding a row was set to 7 while another tab existed
C28_Witness ==
  /\ Len(tasks) = 3
  /\ Quiescent
  /\ tasks[1].op = "ensure"
  /\ tasks[2].op = "log"
  /\ tasks[2].sheet # tasks[1].sheet
  /\ tasks[3].op = "target"
  /\ tasks[3].res = "ok"
  /\ tasks[3].sheet = tasks[1].sheet
  /\ Len(tabs) = 2
  /\ tabs[1].title # tasks[3].sheet
  /\ CellsOf(tabs, tasks[3].sheet)[<<5, 6>>] = NumCell(Num(7))

-----------------------------------------------------------------------------
\* bot.ts: the handlers of the running bot.  Events arrive at any time; a
\* handler that calls the service is a task, and tasks interleave at their
\* backend requests.  A handler that only sends a message and returns is a
\* task that has ended at once; res is the outcome a handler reports, and auth
\* whether the sender of its event was approved when the event arrived.  The
\* keyboard a handler sends is its entry in keyboards.

MaxTasks == 2
MaxPending == 1

AccessDenied == "Access Denied"
NotApprovedAnswer == "You are not approved to use this bot"
ExpenseNotFound == "Expense data not found. Please try again."
ErrAmountText == "Invalid amount. Must be a positive number."

\* the target the reset button resets to
ResetTarget == Num(150000)

\* the messages sent to the bot in this run
BotMessages ==
  {[cmd |-> sEx, gap |-> <<" ">>, tok |-> <<"5">>, rest |-> <<>>],
   [cmd |-> sEx, gap |-> <<" ">>, tok |-> <<"a">>, rest |-> <<>>],
   [cmd |-> sEx, gap |-> <<>>, tok |-> <<>>, rest |-> <<>>]}

\* /^\/expense(@\w+)?$/ or /^\/ex(@\w+)?$/ on the trimmed text: the command alone
OnlyCommand(text) ==
  LET t == trim(text)
      bare(cmd) ==
        /\ startsWith(t, cmd)
        /\ LET r == Slice(t, Len(cmd))
           IN  \/ r = <<>>
               \/ /\ Head(r) = "@"
                  /\ Len(r) >= 2
                  /\ Run(Tail(r), WordChars) = Len(r) - 1
  IN  bare(sExpense) \/ bare(sEx)

\* the pending entry handleExpenseCommand stores
ExpenseData(expense) ==
  [amount |-> expense.amount, description |-> expense.description,
   username |-> expense.username, date |-> expense.date]

\* `${chatId}_${Date.now()}`
CallbackId(chatId, t) == NatDigits(chatId) \o <<"_">> \o NatDigits(t)

sExpTypePrefix == <<"e", "x", "p", "_", "t", "y", "p", "e", "_">>

\* createTypeSelectionKeyboard: callback_data of the button of a type, the
\* Skip button having that of None
CallbackData(callbackId, type) == sExpTypePrefix \o callbackId \o <<"_">> \o type

\* s.indexOf(c), counted from 1: 0 when c is not in s
indexOf(s, c) ==
  IF \E i \in 1..Len(s) : s[i] = c
  THEN CHOOSE i \in 1..Len(s) : s[i] = c /\ \A j \in 1..(i - 1) : s[j] # c
  ELSE 0

\* s.lastIndexOf(c), counted from 1: 0 when c is not in s
lastIndexOf(s, c) ==
  IF \E i \in 1..Len(s) : s[i] = c
  THEN CHOOSE i \in 1..Len(s) : s[i] = c /\ \A j \in (i + 1)..Len(s) : s[j] # c
  ELSE 0

\* the exp_type branch: data.replace('exp_type_', ''), cut at the last underscore
DecodeCallbackData(data) ==
  LET dataWithoutPrefix == Slice(data, Len(sExpTypePrefix))
      lastUnderscoreIndex == lastIndexOf(dataWithoutPrefix, "_")
  IN  [callbackId |-> SubSeq(dataWithoutPrefix, 1, lastUnderscoreIndex - 1),
       type |-> Slice(dataWithoutPrefix, lastUnderscoreIndex)]

ChatId == 1

\* a handler that has sent the text and returned
Answered(op, text, approved) ==
  [NewTask(op, "done", <<>>) EXCEPT !.res = text, !.auth = approved]

MapSet(f, key, value) == [x \in (DOMAIN f) \cup {key} |-> IF x = key THEN value ELSE f[x]]

\* a handler that logs the parsed expense at once, with no type
ExpenseCommandLogsAtOnce ==
  \E from \in UserIds, m \in BotMessages :
    LET result == parseExpenseMessage(Text(m), <<"u">>, now)
        approved == isUserApproved(from, adminUserId, approvedUsers)
    IN  /\ Len(tasks) < MaxTasks
        /\ tasks' = Append(tasks,
             IF approved /\ result.success
             THEN [NewTask("expense", "ens_get", <<"log_row", "end">>) EXCEPT
                     !.sheet = getMonthlySheetName(now), !.e = result.expense]
             ELSE Answered("expense", "Parse error", approved))
        /\ UNCHANGED <<now, parseVars, botVars, tabs, targetExpense, faults, appended>>

\* handleExpenseCommand for a message of the set messages, while fewer than
\* maxPending type keyboards were sent
OnExpenseCommand(messages, maxPending) ==
  \E from \in UserIds, m \in messages :
    LET result == parseExpenseMessage(Text(m), <<"u">>, now)
        approved == isUserApproved(from, adminUserId, approvedUsers)
        stored == approved /\ ~OnlyCommand(Text(m)) /\ result.success
        callbackId == CallbackId(ChatId, now)
        text == IF ~approved THEN AccessDenied
                ELSE IF OnlyCommand(Text(m)) THEN "Tip"
                ELSE "Parse error"
    IN  IF stored
        THEN /\ Cardinality({k \in keyboards : k.kind = "exp_type"}) < maxPending
             /\ pendingExpenses' = MapSet(pendingExpenses, callbackId, ExpenseData(result.expense))
             /\ keyboards' = keyboards \cup {[kind |-> "exp_type", id |-> callbackId, sheet |-> <<>>]}
             /\ UNCHANGED <<now, parseVars, aclVars, event, reply, svcVars>>
        ELSE /\ Len(tasks) < MaxTasks
             /\ tasks' = Append(tasks, Answered("expense", text, approved))
             /\ UNCHANGED <<now, parseVars, botVars, tabs, targetExpense, faults, appended>>

\* handleExpenseCommand
ExpenseCommand == OnExpenseCommand(BotMessages, MaxPending)

\* the types offered on the buttons that are pressed in this run
PressedTypes == {sNone, sFuel}

\* the handler without the test of expenseData: reading the date of a missing
\* entry throws, and the catch answers "Error logging expense"
TypeSelectedUnchecked ==
  \E from \in UserIds, k \in keyboards, button \in PressedTypes :
    LET approved == isUserApproved(from, adminUserId, approvedUsers)
        data == CallbackData(k.id, button)
        callbackId == DecodeCallbackData(data).callbackId
        type == DecodeCallbackData(data).type
        found == callbackId \in DOMAIN pendingExpenses
        expenseData == pendingExpenses[callbackId]
        task == [NewTask("type", "ens_get", <<"log_row", "cb_logged">>) EXCEPT
                   !.sheet = getMonthlySheetName(now),
                   !.e = [date |-> expenseData.date,
                          type |-> IF type = sNone THEN Undefined ELSE type,
                          amount |-> expenseData.amount,
                          description |-> expenseData.description,
                          username |-> expenseData.username],
                   !.auth = approved, !.cb = callbackId]
    IN  /\ k.kind = "exp_type"
        /\ Len(tasks) < MaxTasks
        /\ tasks' = IF ~approved THEN Append(tasks, Answered("type", NotApprovedAnswer, approved))
                    ELSE IF ~found THEN Append(tasks, Answered("type", "error", approved))
                    ELSE Append(tasks, task)
        /\ UNCHANGED <<now, parseVars, botVars, tabs, targetExpense, faults, appended>>

\* callback_query, data exp_type_<callbackId>_<type>
TypeSelected ==
  \E from \in UserIds, k \in keyboards, button \in PressedTypes :
    LET approved == isUserApproved(from, adminUserId, approvedUsers)
        data == CallbackData(k.id, button)
        callbackId == DecodeCallbackData(data).callbackId
        type == DecodeCallbackData(data).type
        found == callbackId \in DOMAIN pendingExpenses
        expenseData == pendingExpenses[callbackId]
        expense == [date |-> expenseData.date,
                    type |-> IF type = sNone THEN Undefined ELSE type,
                    amount |-> expenseData.amount,
                    description |-> expenseData.description,
                    username |-> expenseData.username]
        task == [NewTask("type", "ens_get", <<"log_row", "cb_logged">>) EXCEPT
                   !.sheet = getMonthlySheetName(now), !.e = expense,
                   !.auth = approved, !.cb = callbackId]
    IN  /\ k.kind = "exp_type"
        /\ Len(tasks) < MaxTasks
        /\ tasks' = IF ~approved THEN Append(tasks, Answered("type", NotApprovedAnswer, approved))
                    ELSE IF ~found THEN Append(tasks, Answered("type", ExpenseNotFound, approved))
                    ELSE Append(tasks, task)
        /\ UNCHANGED <<now, parseVars, botVars, tabs, targetExpense, faults, appended>>

\* a /setup_sheet handler that resets the tab of the month at once
SetupSheetResetsAtOnce ==
  \E from \in UserIds :
    /\ Len(tasks) < MaxTasks
    /\ tasks' = Append(tasks,
                       [NewTask("setup", "cb_answer", <<"rst_names", "cb_reset">>) EXCEPT
                          !.sheet = getMonthlySheetName(now), !.tgt = ResetTarget,
                          !.auth = isUserApproved(from, adminUserId, approvedUsers)])
    /\ UNCHANGED <<now, parseVars, botVars, tabs, targetExpense, faults, appended>>

\* bot.onText(/\/setup_sheet/)
SetupSheet ==
  \E from \in UserIds :
    LET approved == isUserApproved(from, adminUserId, approvedUsers)
    IN  IF approved
        THEN /\ keyboards' = keyboards \cup {[kind |-> "setup_reset", id |-> NoCallback,
                                              sheet |-> getMonthlySheetName(now)]}
             /\ UNCHANGED <<now, parseVars, aclVars, event, reply, pendingExpenses, svcVars>>
        ELSE /\ Len(tasks) < MaxTasks
             /\ tasks' = Append(tasks, Answered("setup", AccessDenied, approved))
             /\ UNCHANGED <<now, parseVars, botVars, tabs, targetExpense, faults, appended>>

\* callback_query, data setup_reset_<sheet name>: answerCallbackQuery is awaited first
ResetConfirmed ==
  \E from \in UserIds, k \in keyboards :
    /\ k.kind = "setup_reset"
    /\ Len(tasks) < MaxTasks
    /\ tasks' = Append(tasks,
                       [NewTask("reset", "cb_answer", <<"rst_names", "cb_reset">>) EXCEPT
                          !.sheet = k.sheet, !.tgt = ResetTarget,
                          !.auth = isUserApproved(from, adminUserId, approvedUsers)])
    /\ UNCHANGED <<now, parseVars, botVars, tabs, targetExpense, faults, appended>>

CancelledAnswer == "Cancelled"

\* callback_query, data setup_cancel: the other button of the /setup_sheet message
SetupCancel ==
  \E from \in UserIds, k \in keyboards :
    LET approved == isUserApproved(from, adminUserId, approvedUsers)
    IN  /\ k.kind = "setup_reset"
        /\ Len(tasks) < MaxTasks
        /\ tasks' = Append(tasks,
                           Answered("cancel", IF approved THEN CancelledAnswer ELSE NotApprovedAnswer,
                                    approved))
        /\ UNCHANGED <<now, parseVars, botVars, tabs, targetExpense, faults, appended>>

\* the answer to answerCallbackQuery arrives: resetSheetToInitialState starts,
\* keeps this.targetExpense and sets it to the target of the reset
cb_answer ==
  \E i \in 1..Len(tasks) :
    /\ tasks[i].pc = "cb_answer"
    /\ tasks' = [tasks EXCEPT ![i] = [@ EXCEPT !.pc = "names_get", !.orig = targetExpense]]
    /\ targetExpense' = tasks[i].tgt
    /\ UNCHANGED <<now, parseVars, botVars, tabs, faults, appended>>

\* bot.onText(/\/total$/)
Total ==
  \E from \in UserIds :
    LET approved == isUserApproved(from, adminUserId, approvedUsers)
    IN  /\ Len(tasks) < MaxTasks
        /\ tasks' = IF approved
                    THEN Append(tasks,
                                [NewTask("total", "names_get", <<"exp_names", "tot_sum", "h_total">>) EXCEPT
                                   !.sheet = getMonthlySheetName(now)])
                    ELSE Append(tasks, Answered("total", AccessDenied, approved))
        /\ UNCHANGED <<now, parseVars, botVars, tabs, targetExpense, faults, appended>>

\* the amounts given to /set_target in this run
TargetArgs == {<<"7">>, <<"a">>}

sSetTarget == <<"/", "s", "e", "t", "_", "t", "a", "r", "g", "e", "t">>

\* bot.onText(/\/set_target/): setTargetExpense sets this.targetExpense before
\* its first request
SetTarget ==
  \E from \in UserIds, arg \in TargetArgs :
    LET approved == isUserApproved(from, adminUserId, approvedUsers)
        parts == SplitWs(trim(sSetTarget \o <<" ">> \o arg))
        targetAmount == parseFloat(parts[2])
        valid == Len(parts) >= 2 /\ ~InvalidAmount(targetAmount)
    IN  /\ Len(tasks) < MaxTasks
        /\ tasks' = IF ~approved THEN Append(tasks, Answered("target", AccessDenied, approved))
                    ELSE IF ~valid THEN Append(tasks, Answered("target", ErrAmountText, approved))
                    ELSE Append(tasks,
                                [NewTask("target", "tgt_f5", <<"h_target">>) EXCEPT
                                   !.sheet = getMonthlySheetName(now), !.tgt = targetAmount])
        /\ targetExpense' = IF approved /\ valid THEN targetAmount ELSE targetExpense
        /\ UNCHANGED <<now, parseVars, botVars, tabs, faults, appended>>

sExpenses == <<"E", "x", "p", "e", "n", "s", "e", "s">>

\* main() has run on a new document: the tab config.sheetName is initialized
\* with the configured target, the admin and the users of the file are approved
Init ==
  /\ now = 0
  /\ msg = NoMessage
  /\ parsed = NotParsed
  /\ InitAcl(1, [exists |-> TRUE, ids |-> <<2>>])
  /\ pendingExpenses = NoPending
  /\ keyboards = {}
  /\ tabs = <<[Tab(sExpenses, StructureCells(NoCells, Num(0))) EXCEPT
                 !.fmt = {"currency F5:H5", "currency G14:G24", "colours"}]>>
  /\ targetExpense = Num(0)
  /\ tasks = <<>>
  /\ faults = 0
  /\ appended = [title \in {} |-> <<>>]

Next ==
  \/ ExpenseCommand \/ TypeSelected \/ SetupSheet \/ ResetConfirmed \/ SetupCancel \/ cb_answer
  \/ Total \/ SetTarget
  \/ Backend \/ tgt_f5
  \/ Tick

Spec == Init /\ [][Next]_vars


(***************************************************************************)
(* The pending expenses: two accepted commands, their category selections  *)
(* and the clock, with at most MaxPendingFaults failed requests.           *)
(***************************************************************************)
MaxKeyboards == 2
MaxPendingFaults == 1

\* two commands the parser accepts, of different amounts
AcceptedMessages ==
  {[cmd |-> sEx, gap |-> <<" ">>, tok |-> <<"5">>, rest |-> <<>>],
   [cmd |-> sEx, gap |-> <<" ">>, tok |-> <<"7">>, rest |-> <<>>]}

InitPending ==
  /\ now = 0
  /\ msg = NoMessage
  /\ parsed = NotParsed
  /\ InitAcl(1, [exists |-> TRUE, ids |-> <<2>>])
  /\ pendingExpenses = NoPending
  /\ keyboards = {}
  /\ tabs = <<[Tab(sExpenses, StructureCells(NoCells, Num(0))) EXCEPT
                 !.fmt = {"currency F5:H5", "currency G14:G24", "colours"}]>>
  /\ targetExpense = Num(0)
  /\ tasks = <<>>
  /\ faults = MaxPendingFaults
  /\ appended = [title \in {} |-> <<>>]

AcceptedCommand == OnExpenseCommand(AcceptedMessages, MaxKeyboards)

NextPending ==
  \/ AcceptedCommand \/ TypeSelected
  \/ ens_get \/ ens_add
  \/ init_f4 \/ init_f5 \/ init_cur_fmt \/ init_a5
  \/ bd_write \/ bd_fmt \/ fmt_apply
  \/ log_append \/ sum_upd
  \/ Tick

SpecPending == InitPending /\ [][NextPending]_vars

(***************************************************************************)
(* Properties of the bot under interleaved handlers.                       *)
(***************************************************************************)
\* task i is a logExpense call started by a category selection
IsLogCall(i) == tasks[i].op = "type" /\ tasks[i].auth /\ tasks[i].cb # NoCallback /\ tasks[i].e # NoExpense

\* C2: a logExpense call whose addSheet request is refused because a tab of
\* that name exists already treats the refusal as "already exists": it still
\* appends its row and its command is not reported as failed
C2_DuplicateTabNameIsBenign ==
  \A i \in 1..Len(tasks) :
    (IsLogCall(i) /\ tasks[i].dup /\ tasks[i].pc = "done")
      => (tasks[i].logged /\ tasks[i].res # "error")

\* C4: a successful append of an expense of amount a raises the total of the
\* tab it is appended to, computed from the rows from row 6 on, by exactly a
C4_AppendRaisesTotalByAmount ==
  [][\A i \in 1..Len(tasks) :
       (~tasks[i].logged /\ tasks'[i].logged)
         => TotalFor(tabs', tasks[i].sheet) = Add(TotalFor(tabs, tasks[i].sheet), tasks[i].e.amount)]_vars

\* C6: a handler started by an identity that was not approved at the time of
\* its command or callback event makes no write to the document
C6_NoWriteForUnapproved ==
  \A i \in 1..Len(tasks) : ~tasks[i].auth => tasks[i].writes = 0

\* C8: at most one row is appended for a correlation id, also when its
\* category selection is delivered again while the first delivery waits for
\* the append
C8_OneRowPerCallbackId ==
  \A i, j \in 1..Len(tasks) :
    (i # j /\ tasks[i].cb # NoCallback /\ tasks[i].cb = tasks[j].cb)
      => ~(tasks[i].logged /\ tasks[j].logged)

\* the last task, when this step started one
Started == IF Len(tasks') = Len(tasks) + 1 THEN tasks'[Len(tasks')] ELSE NewTask("", "done", <<>>)

\* C16: handleExpenseCommand makes no backend request: when the parser
\* rejects the command, and in every other case, the handler has ended when
\* it returns, has written nothing and the document is as before (no tab is
\* created); a row is appended only by the handler of a category selection,
\* for the pending expense of its correlation id.
C16_ExpenseCommandNeverCallsBackend ==
  /\ [](\A i \in 1..Len(tasks) :
          tasks[i].op = "expense"
            => tasks[i].pc = "done" /\ tasks[i].writes = 0 /\ ~tasks[i].logged)
  /\ [](\A i \in 1..Len(tasks) :
          tasks[i].logged => tasks[i].op = "type" /\ tasks[i].cb # NoCallback)
  /\ [][ExpenseCommand => tabs' = tabs /\ appended' = appended /\ Started.pc = "done"]_vars

\* a command was rejected by the parser, with no tab of the month made, after
\* an earlier one was logged through its category selection
C16_Witness ==
  /\ Len(tasks) = 2
  /\ tasks[1].op = "type"
  /\ tasks[1].logged
  /\ tasks[2].op = "expense"
  /\ tasks[2].res = "Parse error"
  /\ tasks[2].auth
  /\ HasTab(tabs, getMonthlySheetName(0))
  /\ ~HasTab(tabs, getMonthlySheetName(now))

\* no type keyboard sent so far has its correlation id in pendingExpenses
NoPendingForKeyboards ==
  \A k \in keyboards : k.kind = "exp_type" => k.id \notin DOMAIN pendingExpenses

C31_ResetOnlyAfterConfirmation ==
  /\ [][SetupSheet => tabs' = tabs /\ appended' = appended /\ Started.pc = "done"]_vars
  /\ [][SetupCancel => tabs' = tabs /\ appended' = appended /\ Started.pc = "done"]_vars
  /\ [][Started.pc = "cb_answer"
          => (ResetConfirmed /\ \E k \in keyboards : k.kind = "setup_reset" /\ k.sheet = Started.sheet)]_vars
  /\ [](\A i \in 1..Len(tasks) :
          /\ tasks[i].op \in {"setup", "cancel"} => tasks[i].pc = "done" /\ tasks[i].writes = 0
          /\ tasks[i].pc \in {"cb_answer", "rst_names", "rst_clear", "cb_reset"} => tasks[i].op = "reset")

\* a reset was confirmed and has cleared the tab of an expense logged
\* before, and the cancel button was pressed after it
C31_Witness ==
  /\ \E k \in keyboards : k.kind = "setup_reset"
  /\ Len(tasks) = 2
  /\ tasks[1].op = "reset" /\ tasks[1].pc = "done" /\ tasks[1].writes > 0
  /\ tasks[2].op = "cancel" /\ tasks[2].res = CancelledAnswer

\* task j has created its tab and is still inside the initializeSheetStructure
\* that ensureMonthlySheetExists runs for it
Initializing(j) ==
  /\ tasks[j].pc # "done"
  /\ \E k \in 1..Len(tasks[j].ret) : tasks[j].ret[k] = "ens_ret"

\* this step appends the row of task i
Appends(i) == ~tasks[i].logged /\ tasks'[i].logged

\* C32: no row is appended to a tab while the logExpense call that created
\* the tab is still between its addSheet and the end of its
\* initializeSheetStructure
C32_NoAppendBeforeStructure ==
  [][\A i, j \in 1..Len(tasks) :
       (i # j /\ Appends(i) /\ tasks[j].sheet = tasks[i].sheet) => ~Initializing(j)]_vars

\* the summary region F4:H5 and the header row A5:D5 of the tab are written
SummaryAndHeader(t, title) ==
  /\ Present(CellsOf(t, title), SummaryRegion)
  /\ Present(CellsOf(t, title), HeaderRegion)

\* C33: a row is appended to a tab that ensureMonthlySheetExists created only
\* when the summary region and the header row of the tab are there, also
\* when a request of the initialization was failed by the backend
C33_AppendOnlyToInitializedTab ==
  [][\A i \in 1..Len(tasks) :
       (Appends(i) /\ tasks[i].sheet \in DOMAIN appended)
         => SummaryAndHeader(tabs, tasks[i].sheet)]_vars

\* the name of the tab of the month a date YYYY-MM-DD lies in
TabOfDate(date) ==
  months[DigitVal(date[6]) * 10 + DigitVal(date[7])] \o <<" ">> \o SubSeq(date, 1, 4)

\* C34: every row appended to the tab of a month carries a date of that
\* month, whatever the order of submissions, clock ticks and category
\* selections
C34_RowDateLiesInMonthOfTab ==
  \A title \in DOMAIN appended :
    \A k \in 1..Len(appended[title]) : TabOfDate(appended[title][k].date) = title

\* task i ends in this step with the result res
Ends(i, res) == tasks[i].pc # "done" /\ tasks'[i].pc = "done" /\ tasks'[i].res = res

\* C35: an entry leaves pendingExpenses only in the step in which a category
\* selection for its id ends having logged its row; when the selection ends
\* with an error the entry is there as before; and no step of a selection, of
\* a request or of the clock changes an entry that stays
C35_PendingRemovedOnlyWhenLogged ==
  /\ [][\A key \in DOMAIN pendingExpenses :
          key \notin DOMAIN pendingExpenses'
            => \E i \in 1..Len(tasks) :
                 tasks[i].op = "type" /\ tasks[i].cb = key /\ tasks[i].logged /\ Ends(i, "logged")]_vars
  /\ [][\A i \in 1..Len(tasks) :
          (tasks[i].op = "type" /\ Ends(i, "error") /\ tasks[i].cb \in DOMAIN pendingExpenses)
            => (/\ tasks[i].cb \in DOMAIN pendingExpenses'
                /\ pendingExpenses'[tasks[i].cb] = pendingExpenses[tasks[i].cb])]_vars
  /\ [][(tasks' # tasks \/ now' # now)
          => \A key \in (DOMAIN pendingExpenses) \cap (DOMAIN pendingExpenses') :
               pendingExpenses'[key] = pendingExpenses[key]]_vars

\* a selection has ended with an error after a request failed, its entry is
\* still pending, and the same selection is being tried again
C35_Witness ==
  /\ Len(tasks) = 2
  /\ tasks[1].op = "type" /\ tasks[1].pc = "done" /\ tasks[1].res = "error"
  /\ tasks[1].failed # {}
  /\ tasks[1].cb \in DOMAIN pendingExpenses
  /\ tasks[2].op = "type" /\ tasks[2].cb = tasks[1].cb /\ tasks[2].pc = "log_append"

\* C38: accepted expense commands get correlation ids that are not in use: no
\* step changes the entry that pendingExpenses holds for an id
C38_DistinctIdsNoOverwrite ==
  [][\A key \in (DOMAIN pendingExpenses) \cap (DOMAIN pendingExpenses') :
       pendingExpenses'[key] = pendingExpenses[key]]_vars

\* the same for commands handled at different instants of the clock
C38_LaterCommandKeepsEntry ==
  [][now # 0 => \A key \in (DOMAIN pendingExpenses) \cap (DOMAIN pendingExpenses') :
       key # CallbackId(ChatId, now) => pendingExpenses'[key] = pendingExpenses[key]]_vars

\* C36: a migration that is to keep the rows and whose read of the legacy
\* rows A2:C the backend failed does not report success, and after the
\* failed read no step of it changes the tab
C36_FailedReadIsNotSuccess ==
  /\ [](\A i \in 1..Len(tasks) :
          (tasks[i].op = "migrate" /\ tasks[i].keep /\ "mig_read" \in tasks[i].failed
             /\ tasks[i].pc = "done")
            => tasks[i].res # "ok")
  /\ [][\A i \in 1..Len(tasks) :
          (tasks[i].op = "migrate" /\ tasks[i].keep /\ "mig_read" \in tasks[i].failed
             /\ tasks'[i] # tasks[i])
            => tabs' = tabs]_vars

\* C37: between calls this.targetExpense, the target that
\* initializeSheetStructure writes into F5 of a tab it creates, is the target
\* the service was constructed with (150000 in InitLayout), whatever calls
\* were made before
C37_DefaultTargetIsConfigured == Quiescent => targetExpense = Num(150000)

\* a reset that has returned has put this.targetExpense back to what it was
\* when the reset began
C37_ResetRestoresTarget ==
  [][\A i \in 1..Len(tasks) :
       (tasks[i].op = "reset" /\ tasks[i].pc # "done" /\ tasks'[i].pc = "done")
         => targetExpense' = tasks[i].orig]_vars

\* the choices on a type keyboard: the catalog and the Skip button
Choices == {EXPENSE_TYPES[n] : n \in 1..Len(EXPENSE_TYPES)} \cup {sNone}

\* C39: for every type keyboard the expense handler has sent and every choice
\* on it, the callback data decodes to the id of the keyboard and to the
\* choice; and the row of a selection is written with the type of the button
\* pressed, None and Skip giving the empty type
C39_CallbackDataRoundTrips ==
  /\ \A k \in keyboards :
       k.kind = "exp_type" =>
         \A choice \in Choices :
           DecodeCallbackData(CallbackData(k.id, choice)) = [callbackId |-> k.id, type |-> choice]
  /\ \A i \in 1..Len(tasks) :
       (tasks[i].op = "type" /\ tasks[i].logged) =>
         /\ \E k \in keyboards : k.kind = "exp_type" /\ k.id = tasks[i].cb
         /\ \E button \in PressedTypes :
              ExpenseRow(tasks[i].e)[2] = JsText(IF button = sNone THEN <<>> ELSE button)
         /\ tasks[i].sheet \in DOMAIN appended
         /\ \E n \in 1..Len(appended[tasks[i].sheet]) : appended[tasks[i].sheet][n] = tasks[i].e

\* rows were logged from two keyboards, one through a catalog type and one
\* through None
C39_Witness ==
  /\ Len(tasks) = 2
  /\ tasks[1].logged /\ tasks[2].logged
  /\ tasks[1].cb # tasks[2].cb
  /\ tasks[1].e.type = sFuel
  /\ tasks[2].e.type = Undefined

=============================================================================
